---- MODULE Spec2Model ----
(***************************************************************************)
(* Psychoanalytic Events Aggregator: the extraction and normalization      *)
(* pipeline (field extraction, assembly, completeness scoring,             *)
(* deduplication and merging, catalog supersession).                       *)
(*                                                                         *)
(* Strings of the program are modelled as sequences of word tokens; an     *)
(* instant is an integer Instant(day, slot); "no value" is the empty       *)
(* string, the empty sequence or NoDate, as in the program ("" / {} /      *)
(* None).                                                                  *)
(***************************************************************************)
EXTENDS Integers, Sequences, FiniteSets, TLC

VARIABLES
    sc_in,      \* scorer: the event handed to calculate_completeness
    sc_out,     \* scorer: [done, score, missing] returned for sc_in
    dd_batch,   \* deduplicator: the batch of ScoredEvents of the run
    dd_idx,     \* deduplicator: index of the next event to place
    dd_phase,   \* deduplicator: "idle", "clustering" or "finalized"
    dd_run,     \* deduplicator: how many runs have been started
    clusters,   \* deduplicator: the open clusters, in creation order
    canon,      \* deduplicator: the canonical events emitted by the run
    prevCanon,  \* the canonical events of the previous run over this batch
    prevClusters, \* the clusters of the previous run over this batch
    pl_frags,   \* pipeline: the batch of fragments, each [frag, source]
    pl_state,   \* pipeline: per fragment "todo", "busy", "ok" or "skipped"
    pl_order,   \* pipeline: the fragments in the order they were finished
    pl_scored,  \* pipeline: the ScoredEvents assembled so far
    pl_stats,   \* pipeline: the run statistics
    pl_pc,      \* pipeline: "idle", "init", "config_error", "assemble",
                \* "dedup", "done" or "aborted"
    catalog,    \* catalog: fingerprint -> the canonical event stored for it
    emitted,    \* catalog: the canonical events the last run handed over
    cat_runs,   \* catalog: runs stored so far
    cfg_weights, \* configuration: the weight table the run is started with
    ex_nodes,   \* extractors: the fragment (its nodes) handed to them
    ex_out,     \* extractors: what each extractor returned for ex_nodes
    nl_body,    \* newsletter: the blocks of the email body, in document order
    nl_out,     \* newsletter: [done, sections, handed, events] of the parse
    ui_events,  \* web page: the events loaded by useEvents
    ui_filters, \* web page: the filters of App
    ui_sortBy,  \* web page: the sort option of App
    md_open,    \* Submit Event modal: showSubmitModal of App
    md_form,    \* Submit Event modal: formData
    md_submitted, \* Submit Event modal: submitted
    md_clipboard, \* Submit Event modal: what Copy JSON wrote to the clipboard
    ci_score,   \* completeness indicator: the score it is given
    ci_missing, \* completeness indicator: the missing fields it is given
    ci_hovered, \* completeness indicator: the pointer is over it
    ci_showTooltip, \* completeness indicator: showTooltip
    ue_url,     \* useEvents: the dataUrl of the last render
    ue_loading, \* useEvents: loading
    ue_error,   \* useEvents: error
    ue_lastUpdated, \* useEvents: lastUpdated
    ue_fetches, \* useEvents: the fetches started, each [url, pending]
    ue_server   \* what the server answers to a fetch of each url

scoreVars == <<sc_in, sc_out>>

dedupVars ==
    <<dd_batch, dd_idx, dd_phase, dd_run, clusters, canon, prevCanon, prevClusters>>

pipeVars == <<pl_frags, pl_state, pl_order, pl_scored, pl_stats, pl_pc>>

catVars == <<catalog, emitted, cat_runs>>

cfgVars == <<cfg_weights>>

exVars == <<ex_nodes, ex_out>>

\* the state of the parts added to the pipeline's core
newsVars == <<nl_body, nl_out>>

uiVars == <<ui_events, ui_filters, ui_sortBy>>

modalVars == <<md_open, md_form, md_submitted, md_clipboard>>

indVars == <<ci_score, ci_missing, ci_hovered, ci_showTooltip>>

hookVars ==
    <<ue_url, ue_loading, ue_error, ue_lastUpdated, ue_fetches, ue_server>>

pageVars == <<modalVars, indVars, hookVars>>

restVars == <<cfgVars, exVars, newsVars, uiVars, pageVars>>

vars == <<scoreVars, dedupVars, pipeVars, catVars, restVars>>

----------------------------------------------------------------------------
(* Generic helpers *)

RECURSIVE SeqSum(_)
SeqSum(s) == IF s = <<>> THEN 0 ELSE Head(s) + SeqSum(Tail(s))

SeqRange(s) == {s[i] : i \in 1..Len(s)}

MaxOf(S) == CHOOSE x \in S : \A y \in S : y <= x

MinOf(S) == CHOOSE x \in S : \A y \in S : x <= y

Abs(x) == IF x < 0 THEN 0 - x ELSE x

----------------------------------------------------------------------------
(* Dates *)

\* None, as returned by _extract_date when nothing is found
NoDate == 0

\* instants per calendar day kept apart by the model
SlotsPerDay == 2

Instant(day, slot) == day * SlotsPerDay + slot

\* the calendar day of an instant ("date truncated to day")
DayOf(d) == d \div SlotsPerDay

----------------------------------------------------------------------------
(* Event records *)

NoLocation == [venue |-> "", online_url |-> ""]

NoRegistration == [url |-> "", fee |-> ""]

NoOrganizer == [name |-> ""]

NoSource == [id |-> "", url |-> "", scraped_at |-> 0]

\* an event with every field absent
BlankEvent ==
    [title |-> <<>>, description |-> <<>>, start_date |-> NoDate,
     event_type |-> "", format |-> "", location |-> NoLocation,
     organizer |-> NoOrganizer, registration |-> NoRegistration,
     source |-> NoSource]

----------------------------------------------------------------------------
(* CompletenessScorer *)

\* the weight table, in declaration order
Weights ==
    << <<"title", 20>>, <<"start_date", 20>>, <<"event_type", 10>>,
       <<"format", 10>>, <<"description", 10>>, <<"location", 10>>,
       <<"organizer.name", 10>>, <<"registration.url", 10>> >>

\* presence rule: non-empty string for text fields, non-null instant for
\* dates, non-empty nested object / non-empty nested value for the others
has_field(event, field) ==
    CASE field = "title" -> event.title # <<>>
      [] field = "start_date" -> event.start_date # NoDate
      [] field = "event_type" -> event.event_type # ""
      [] field = "format" -> event.format # ""
      [] field = "description" -> event.description # <<>>
      [] field = "location" -> event.location # NoLocation
      [] field = "organizer.name" -> event.organizer.name # ""
      [] field = "registration.url" -> event.registration.url # ""
      [] OTHER -> FALSE

\* the loop of calculate_completeness over weights.items(), from entry i on,
\* with the accumulators score and missing_fields
RECURSIVE CompletenessLoop(_, _, _, _)
CompletenessLoop(event, i, score, missing_fields) ==
    IF i > Len(Weights) THEN [score |-> score, missing_fields |-> missing_fields]
    ELSE IF has_field(event, Weights[i][1])
         THEN CompletenessLoop(event, i + 1, score + Weights[i][2], missing_fields)
         ELSE CompletenessLoop(event, i + 1, score,
                               Append(missing_fields, Weights[i][1]))

\* a slip of the accumulation: score = weight instead of score += weight
RECURSIVE CompletenessLoopAssign(_, _, _, _)
CompletenessLoopAssign(event, i, score, missing_fields) ==
    IF i > Len(Weights) THEN [score |-> score, missing_fields |-> missing_fields]
    ELSE IF has_field(event, Weights[i][1])
         THEN CompletenessLoopAssign(event, i + 1, Weights[i][2], missing_fields)
         ELSE CompletenessLoopAssign(event, i + 1, score,
                                     Append(missing_fields, Weights[i][1]))

calculate_completeness_assign(event) == CompletenessLoopAssign(event, 1, 0, <<>>)

calculate_completeness(event) == CompletenessLoop(event, 1, 0, <<>>)

----------------------------------------------------------------------------
(* Fragments: a fragment is a parsed element, a sequence of child nodes in
   document order, or something that is no parseable document at all.  A
   node has a tag / class (the selector it answers to), its text (tokens),
   a datetime attribute ("" when it has none) and an href ("" when none). *)

Node(tag, text, datetime, href) ==
    [tag |-> tag, text |-> text, datetime |-> datetime, href |-> href]

\* a Python call either returns a value or raises
Returned(v) == [raised |-> FALSE, value |-> v]

Raised(v) == [raised |-> TRUE, value |-> v]

\* the whitespace token
Space == " "

\* str.strip(): leading and trailing whitespace removed
RECURSIVE LStrip(_)
LStrip(text) ==
    IF text # <<>> /\ Head(text) = Space THEN LStrip(Tail(text)) ELSE text

RECURSIVE RStrip(_)
RStrip(text) ==
    IF text # <<>> /\ text[Len(text)] = Space
    THEN RStrip(SubSeq(text, 1, Len(text) - 1)) ELSE text

Strip(text) == RStrip(LStrip(text))

\* element.get_text(): the texts of the nodes, concatenated
RECURSIVE get_text(_)
get_text(nodes) ==
    IF nodes = <<>> THEN <<>> ELSE Head(nodes).text \o get_text(Tail(nodes))

\* element.get_text(strip=True): each node's text stripped, empty ones dropped
RECURSIVE get_text_strip(_)
get_text_strip(nodes) ==
    IF nodes = <<>> THEN <<>>
    ELSE Strip(Head(nodes).text) \o get_text_strip(Tail(nodes))

\* element.select_one(selector): the first node, in document order, that
\* answers to one of the selectors of the group; <<>> when there is none
Matches(node, sel) ==
    IF sel = "time[datetime]" THEN node.tag = "time" /\ node.datetime # ""
    ELSE node.tag = sel

RECURSIVE select_one(_, _)
select_one(nodes, sels) ==
    IF nodes = <<>> THEN <<>>
    ELSE IF \E sel \in sels : Matches(Head(nodes), sel) THEN <<Head(nodes)>>
         ELSE select_one(Tail(nodes), sels)

----------------------------------------------------------------------------
(* FieldExtractor: dates *)

\* the date a token denotes for dateutil's parser, NoDate when it denotes
\* none; days are counted from Monday 2025-05-26, so that 2025-06-01, a
\* Sunday, is day 6 and 2025-06-02, a Monday, is day 7
TokenDate(tok) ==
    CASE tok = "2025-06-01" -> Instant(6, 0)
      [] tok = "2025-06-01T18:00" -> Instant(6, 1)
      [] tok = "2025-06-02" -> Instant(7, 0)
      [] tok = "June 8, 2025" -> Instant(13, 0)
      [] tok = "8th of June 2025" -> Instant(13, 0)
      [] tok = "6/2/2025" -> Instant(7, 0)
      [] tok = "8 June 2025" -> Instant(13, 0)
      [] OTHER -> NoDate

\* the entry of DATE_PATTERNS, by its index in the list, that matches within
\* the token; 0 when none does (no token here is matched by two entries)
DatePatternOf(tok) ==
    CASE tok \in {"6/2/2025", "13/32/2025"} -> 1
      [] tok \in {"2025-06-01", "2025-06-01T18:00", "2025-06-02"} -> 2
      [] tok \in {"June 8, 2025"} -> 3
      [] tok \in {"8 June 2025"} -> 4
      [] OTHER -> 0

DatePatternCount == 4

\* match.group(): the part of the token the pattern matched
DateMatchGroup(tok) == IF tok = "2025-06-01T18:00" THEN "2025-06-01" ELSE tok

\* date_parser.parse(s): the date of the string, raising when it has none
date_parse(tok) ==
    IF TokenDate(tok) # NoDate THEN Returned(TokenDate(tok)) ELSE Raised(NoDate)

\* date_parser.parse(text, fuzzy=True): tokens that are no date are skipped;
\* the parse raises when the text holds no date or more than one distinct date
date_parse_fuzzy(text) ==
    LET found == {TokenDate(text[i]) : i \in 1..Len(text)} \ {NoDate}
    IN IF Cardinality(found) = 1 THEN Returned(CHOOSE d \in found : TRUE)
       ELSE Raised(NoDate)

\* the loop over DATE_PATTERNS from entry k on: re.search gives the entry's
\* first match in the text; a match that does not parse moves on to the
\* next entry (continue)
RECURSIVE DatePatternLoop(_, _)
DatePatternLoop(text, k) ==
    IF k > DatePatternCount THEN NoDate
    ELSE LET hits == {i \in 1..Len(text) : DatePatternOf(text[i]) = k}
         IN IF hits # {} /\ ~date_parse(DateMatchGroup(text[MinOf(hits)])).raised
            THEN date_parse(DateMatchGroup(text[MinOf(hits)])).value
            ELSE DatePatternLoop(text, k + 1)

\* the regex fallback of _extract_date
date_by_patterns(text) == DatePatternLoop(text, 1)

DateSelectors == {".date", ".event-date", "time[datetime]"}

\* a variant of _extract_date that treats an unreadable datetime attribute as
\* absent and goes on to the element's text
extract_date_lenient_attr(nodes) ==
    LET date_elem == select_one(nodes, DateSelectors)
        attr_ok == date_elem # <<>> /\ date_elem[1].datetime # ""
                   /\ ~date_parse(date_elem[1].datetime).raised
        text == IF date_elem # <<>> THEN date_elem[1].text ELSE get_text(nodes)
    IN IF attr_ok THEN date_parse(date_elem[1].datetime)
       ELSE IF ~date_parse_fuzzy(text).raised THEN date_parse_fuzzy(text)
       ELSE Returned(date_by_patterns(text))

\* a variant that reads the date element's text before its attribute
extract_date_text_first(nodes) ==
    LET date_elem == select_one(nodes, DateSelectors)
        text == IF date_elem # <<>> THEN date_elem[1].text ELSE get_text(nodes)
    IN IF ~date_parse_fuzzy(text).raised THEN date_parse_fuzzy(text)
       ELSE IF date_elem # <<>> /\ date_elem[1].datetime # ""
            THEN date_parse(date_elem[1].datetime)
            ELSE Returned(date_by_patterns(text))

\* a variant that goes on to the whole fragment text when the date
\* element's text gives no date
extract_date_whole_text(nodes) ==
    LET date_elem == select_one(nodes, DateSelectors)
        text == IF date_elem # <<>> THEN date_elem[1].text ELSE get_text(nodes)
    IN IF date_elem # <<>> /\ date_elem[1].datetime # ""
       THEN date_parse(date_elem[1].datetime)
       ELSE IF ~date_parse_fuzzy(text).raised THEN date_parse_fuzzy(text)
       ELSE IF date_by_patterns(text) # NoDate THEN Returned(date_by_patterns(text))
       ELSE IF ~date_parse_fuzzy(get_text(nodes)).raised
            THEN date_parse_fuzzy(get_text(nodes))
            ELSE Returned(date_by_patterns(get_text(nodes)))

\* EventParser._extract_date
extract_date(nodes) ==
    LET date_elem == select_one(nodes, DateSelectors)
        text == IF date_elem # <<>> THEN date_elem[1].text ELSE get_text(nodes)
    IN IF date_elem # <<>> /\ date_elem[1].datetime # ""
       THEN date_parse(date_elem[1].datetime)
       ELSE IF ~date_parse_fuzzy(text).raised THEN date_parse_fuzzy(text)
       ELSE Returned(date_by_patterns(text))

\* the parses _extract_date attempts, in the order it attempts them: each
\* with the text it is run on ("attribute": the datetime attribute,
\* "element": the date element's text, "fragment": the whole text)
extract_date_stages(nodes) ==
    LET date_elem == select_one(nodes, DateSelectors)
        scope == IF date_elem # <<>> THEN "element" ELSE "fragment"
        text == IF date_elem # <<>> THEN date_elem[1].text ELSE get_text(nodes)
    IN IF date_elem # <<>> /\ date_elem[1].datetime # ""
       THEN <<[stage |-> "direct", on |-> "attribute"]>>
       ELSE IF ~date_parse_fuzzy(text).raised
            THEN <<[stage |-> "lenient", on |-> scope]>>
            ELSE <<[stage |-> "lenient", on |-> scope],
                   [stage |-> "patterns", on |-> scope]>>

----------------------------------------------------------------------------
(* FieldExtractor: title, description, format, location, registration *)

TitleSelectors == <<"h1", "h2", "h3", ".event-title", ".title", "a">>

\* the cap of the fallback title ([:200]), in tokens
TitleCap == 3

\* the loop of _extract_title over the selectors, from selector i on
RECURSIVE TitleLoop(_, _)
TitleLoop(nodes, i) ==
    IF i > Len(TitleSelectors)
    THEN LET flat == get_text_strip(nodes)
         IN SubSeq(flat, 1, IF Len(flat) < TitleCap THEN Len(flat) ELSE TitleCap)
    ELSE LET title_elem == select_one(nodes, {TitleSelectors[i]})
         IN IF title_elem # <<>> /\ Strip(title_elem[1].text) # <<>>
            THEN Strip(title_elem[1].text)
            ELSE TitleLoop(nodes, i + 1)

\* a variant that takes the first selector's element whatever its text
RECURSIVE TitleLoopAnyText(_, _)
TitleLoopAnyText(nodes, i) ==
    IF i > Len(TitleSelectors)
    THEN LET flat == get_text_strip(nodes)
         IN SubSeq(flat, 1, IF Len(flat) < TitleCap THEN Len(flat) ELSE TitleCap)
    ELSE LET title_elem == select_one(nodes, {TitleSelectors[i]})
         IN IF title_elem # <<>> THEN Strip(title_elem[1].text)
            ELSE TitleLoopAnyText(nodes, i + 1)

extract_title_any_text(nodes) == TitleLoopAnyText(nodes, 1)

\* EventParser._extract_title
extract_title(nodes) == TitleLoop(nodes, 1)

DescriptionSelectors == <<".description", ".event-description", "p", ".content">>

\* the length a description must exceed (len(text) > 50), in tokens
MinDescLen == 2

RECURSIVE DescriptionLoop(_, _)
DescriptionLoop(nodes, i) ==
    IF i > Len(DescriptionSelectors) THEN <<>>
    ELSE LET desc_elem == select_one(nodes, {DescriptionSelectors[i]})
         IN IF desc_elem # <<>> /\ Len(Strip(desc_elem[1].text)) > MinDescLen
            THEN Strip(desc_elem[1].text)
            ELSE DescriptionLoop(nodes, i + 1)

\* EventParser._extract_description
extract_description(nodes) == DescriptionLoop(nodes, 1)

\* the FORMAT_KEYWORDS categories one of whose keywords occurs in the
\* lower-cased token
TokenKeywords(tok) ==
    CASE tok \in {"Zoom", "webinar", "Online"} -> {"online"}
      [] tok \in {"Hybrid", "hybrid"} -> {"hybrid"}
      [] tok \in {"In-Person", "Avenue"} -> {"in-person"}
      [] OTHER -> {}

LocationSelectors == {".location", ".venue", ".address"}

\* a variant without the default: no format when nothing indicates one
detect_format_no_default(nodes) ==
    LET text == get_text(nodes)
        kws == UNION {TokenKeywords(text[i]) : i \in 1..Len(text)}
    IN IF "hybrid" \in kws THEN "hybrid"
       ELSE IF "online" \in kws THEN "online"
       ELSE IF "in-person" \in kws THEN "in-person"
       ELSE IF select_one(nodes, LocationSelectors) # <<>> THEN "in-person"
       ELSE ""

\* a variant that checks the online keywords before the hybrid ones
detect_format_online_first(nodes) ==
    LET text == get_text(nodes)
        kws == UNION {TokenKeywords(text[i]) : i \in 1..Len(text)}
    IN IF "online" \in kws THEN "online"
       ELSE IF "hybrid" \in kws THEN "hybrid"
       ELSE IF "in-person" \in kws THEN "in-person"
       ELSE IF select_one(nodes, LocationSelectors) # <<>> THEN "in-person"
       ELSE "online"

\* EventParser._detect_format
detect_format(nodes) ==
    LET text == get_text(nodes)
        kws == UNION {TokenKeywords(text[i]) : i \in 1..Len(text)}
    IN IF "hybrid" \in kws THEN "hybrid"
       ELSE IF "online" \in kws THEN "online"
       ELSE IF "in-person" \in kws THEN "in-person"
       ELSE IF select_one(nodes, LocationSelectors) # <<>> THEN "in-person"
       ELSE "online"

\* the first link whose target contains one of the tokens
RECURSIVE select_link(_, _)
select_link(nodes, hrefs) ==
    IF nodes = <<>> THEN <<>>
    ELSE IF Head(nodes).tag = "a" /\ Head(nodes).href \in hrefs THEN <<Head(nodes)>>
         ELSE select_link(Tail(nodes), hrefs)

ZoomHrefs == {"zoom.us/j/1", "meet.google.com/x"}

RegisterHrefs == {"x.org/register", "y.org/registration"}

\* EventParser._extract_location (venue and online URL; city / country are
\* read off the venue text and carry no weight of their own)
extract_location(nodes) ==
    LET loc_elem == select_one(nodes, LocationSelectors)
        zoom_link == select_link(nodes, ZoomHrefs)
    IN [venue |-> IF loc_elem # <<>> THEN "venue-text" ELSE "",
        online_url |-> IF zoom_link # <<>> THEN zoom_link[1].href ELSE ""]

\* the fee pattern, by its index in fee_patterns, that matches the token
\* case-insensitively; 0 when none does
FeePatternOf(tok) ==
    CASE tok \in {"$50"} -> 1
      [] tok \in {"Free", "free"} -> 4
      [] tok \in {"No charge"} -> 5
      [] tok \in {"complimentary"} -> 6
      [] OTHER -> 0

FeePatternCount == 6

\* the loop over fee_patterns from pattern k on: the first pattern that
\* matches anywhere in the text gives the fee (its first match in the text)
RECURSIVE FeeLoop(_, _)
FeeLoop(text, k) ==
    IF k > FeePatternCount THEN ""
    ELSE LET hits == {i \in 1..Len(text) : FeePatternOf(text[i]) = k}
         IN IF hits # {} THEN text[MinOf(hits)] ELSE FeeLoop(text, k + 1)

\* a variant whose fee is the earliest match in the text of any pattern
extract_registration_earliest(nodes) ==
    LET reg_link == select_link(nodes, RegisterHrefs)
        text == get_text(nodes)
        hits == {i \in 1..Len(text) : FeePatternOf(text[i]) # 0}
    IN [url |-> IF reg_link # <<>> THEN reg_link[1].href ELSE "",
        fee |-> IF hits = {} THEN "" ELSE text[MinOf(hits)]]

\* EventParser._extract_registration
extract_registration(nodes) ==
    LET reg_link == select_link(nodes, RegisterHrefs)
    IN [url |-> IF reg_link # <<>> THEN reg_link[1].href ELSE "",
        fee |-> FeeLoop(get_text(nodes), 1)]

----------------------------------------------------------------------------
(* EventAssembler *)

\* Event(**event_data): the record's validation rejects an event that has
\* neither a title nor a start date
EventRejected(event_data) ==
    event_data.title = <<>> /\ event_data.start_date = NoDate

\* the extractor calls of parse_event_from_html: an extractor raises on a
\* fragment that is no parseable document; _extract_date raises on a
\* datetime attribute that is no date
ExtractorsRaise(frag) ==
    \/ ~frag.parseable
    \/ extract_date(frag.nodes).raised

\* event_data as built by parse_event_from_html
EventData(frag, source_context) ==
    [title |-> extract_title(frag.nodes),
     description |-> extract_description(frag.nodes),
     start_date |-> extract_date(frag.nodes).value,
     event_type |-> "",
     format |-> detect_format(frag.nodes),
     location |-> extract_location(frag.nodes),
     organizer |-> NoOrganizer,
     registration |-> extract_registration(frag.nodes),
     source |-> source_context]

\* parse_event_from_html without its try / except: an exception leaves it
parse_event_uncaught(frag, source_context) ==
    IF ExtractorsRaise(frag)
    THEN [outcome |-> "raise", event |-> BlankEvent]
    ELSE IF EventRejected(EventData(frag, source_context))
         THEN [outcome |-> "raise", event |-> BlankEvent]
         ELSE [outcome |-> "event", event |-> EventData(frag, source_context)]

\* EventParser.parse_event_from_html: the Event, or None when anything raised
parse_event_from_html(frag, source_context) ==
    IF ExtractorsRaise(frag)
    THEN [outcome |-> "none", event |-> BlankEvent]
    ELSE IF EventRejected(EventData(frag, source_context))
         THEN [outcome |-> "none", event |-> BlankEvent]
         ELSE [outcome |-> "event", event |-> EventData(frag, source_context)]

----------------------------------------------------------------------------
(* ScoredEvent: a CandidateEvent with its completeness score *)

ScoredEvent(event) ==
    [ev |-> event,
     completeness_score |-> calculate_completeness(event).score,
     missing_fields |-> calculate_completeness(event).missing_fields]

----------------------------------------------------------------------------
(* Deduplicator: similarity *)

\* a title word case-folded and punctuation-stripped; "" when nothing is left
NormWord(w) ==
    CASE w \in {"Annual", "annual", "ANNUAL:"} -> "annual"
      [] w \in {"Conference", "conference!"} -> "conference"
      [] w \in {"Clinical"} -> "clinical"
      [] w \in {"Seminar", "seminar"} -> "seminar"
      [] w \in {"2025", "2025."} -> "2025"
      [] w \in {"--", Space} -> ""
      [] OTHER -> w

\* the normalized title: its set of normalized tokens
NormTitle(title) == {NormWord(title[i]) : i \in 1..Len(title)} \ {""}

\* token-set overlap of two normalized titles, 0..100
TitleSim(a, b) ==
    IF a = b THEN 100
    ELSE (100 * Cardinality(a \cap b)) \div Cardinality(a \cup b)

\* days within which two dates count as the same week
WeekSpan == 7

ExactDayScore == 100

SameWeekScore == 50

\* date proximity with "same week" read as the same Monday-to-Sunday week
DateProxCalendarWeek(d1, d2) ==
    IF d1 = NoDate \/ d2 = NoDate THEN 0
    ELSE IF DayOf(d1) = DayOf(d2) THEN ExactDayScore
    ELSE IF DayOf(d1) \div WeekSpan = DayOf(d2) \div WeekSpan THEN SameWeekScore
    ELSE 0

\* date proximity, 0..100
DateProx(d1, d2) ==
    IF d1 = NoDate \/ d2 = NoDate THEN 0
    ELSE IF DayOf(d1) = DayOf(d2) THEN ExactDayScore
    ELSE IF Abs(DayOf(d1) - DayOf(d2)) < WeekSpan THEN SameWeekScore
    ELSE 0

TitleWeight == 60

DateWeight == 40

\* the combined score a match must exceed
MatchThreshold == 70

\* the weighted combination of the two similarities
Similarity(e1, e2) ==
    (TitleWeight * TitleSim(NormTitle(e1.title), NormTitle(e2.title))
     + DateWeight * DateProx(e1.start_date, e2.start_date)) \div 100

----------------------------------------------------------------------------
(* Deduplicator: merge rule *)

\* the value a member contributes for a weighted field
FieldValue(event, field) ==
    CASE field = "title" -> event.title
      [] field = "start_date" -> event.start_date
      [] field = "event_type" -> event.event_type
      [] field = "format" -> event.format
      [] field = "description" -> event.description
      [] field = "location" -> event.location
      [] field = "organizer.name" -> event.organizer
      [] field = "registration.url" -> event.registration

\* among the members (a sequence of events) at the indices I, the one from
\* the most recently scraped source, the first seen of them on a tie
MostRecent(members, I) ==
    LET newest == MaxOf({members[i].source.scraped_at : i \in I})
    IN MinOf({i \in I : members[i].source.scraped_at = newest})

\* a merge that takes every field from the latest member, present or not
PickLatest(members, field) ==
    FieldValue(members[MostRecent(members, 1..Len(members))], field)

\* a merge that takes each field from the first-seen member that has it
PickFirst(members, field) ==
    LET having == {i \in 1..Len(members) : has_field(members[i], field)}
    IN IF having = {} THEN FieldValue(BlankEvent, field)
       ELSE FieldValue(members[MinOf(having)], field)

\* the merged value of one field: from a member that has it present, the
\* most recently scraped of them; absent when no member has it
Pick(members, field) ==
    LET having == {i \in 1..Len(members) : has_field(members[i], field)}
    IN IF having = {} THEN FieldValue(BlankEvent, field)
       ELSE FieldValue(members[MostRecent(members, having)], field)

\* the canonical record of a cluster with these members, rescored
merge_duplicates(members) ==
    ScoredEvent(
        [title |-> Pick(members, "title"),
         description |-> Pick(members, "description"),
         start_date |-> Pick(members, "start_date"),
         event_type |-> Pick(members, "event_type"),
         format |-> Pick(members, "format"),
         location |-> Pick(members, "location"),
         organizer |-> Pick(members, "organizer.name"),
         registration |-> Pick(members, "registration.url"),
         source |-> members[MostRecent(members, 1..Len(members))].source])

----------------------------------------------------------------------------
(* Deduplicator: clustering.  A cluster is [members, rep]: the indices of
   its members in the batch, in arrival order, and its canonical
   representative.  The open clusters are kept in creation order. *)

\* the scan over the open clusters from cluster i on; best is the index of
\* the best match so far (0: none) and bestScore its combined score
RECURSIVE BestClusterLoop(_, _, _, _, _)
BestClusterLoop(open, event, i, best, bestScore) ==
    IF i > Len(open) THEN best
    ELSE LET s == Similarity(event, open[i].rep.ev)
         IN IF s > MatchThreshold /\ (best = 0 \/ s > bestScore)
            THEN BestClusterLoop(open, event, i + 1, i, s)
            ELSE BestClusterLoop(open, event, i + 1, best, bestScore)

\* the scan with the later cluster winning a tie
RECURSIVE BestClusterLoopLast(_, _, _, _, _)
BestClusterLoopLast(open, event, i, best, bestScore) ==
    IF i > Len(open) THEN best
    ELSE LET s == Similarity(event, open[i].rep.ev)
         IN IF s > MatchThreshold /\ (best = 0 \/ s >= bestScore)
            THEN BestClusterLoopLast(open, event, i + 1, i, s)
            ELSE BestClusterLoopLast(open, event, i + 1, best, bestScore)

BestClusterLast(open, event) == BestClusterLoopLast(open, event, 1, 0, 0)

\* the open cluster the event joins, 0 when it matches none
BestCluster(open, event) == BestClusterLoop(open, event, 1, 0, 0)

MemberEvents(batch, members) == [j \in 1..Len(members) |-> batch[members[j]].ev]

\* the open clusters after event k of the batch has been placed
AddToClusters(open, batch, k) ==
    LET best == BestCluster(open, batch[k].ev)
    IN IF best = 0
       THEN Append(open, [members |-> <<k>>,
                              rep |-> merge_duplicates(<<batch[k].ev>>)])
       ELSE LET members == Append(open[best].members, k)
            IN [open EXCEPT ![best] =
                   [members |-> members,
                    rep |-> merge_duplicates(MemberEvents(batch, members))]]

\* EventMerger.deduplicate over events k.. of the batch
RECURSIVE DeduplicateFrom(_, _, _)
DeduplicateFrom(open, batch, k) ==
    IF k > Len(batch) THEN open
    ELSE DeduplicateFrom(AddToClusters(open, batch, k), batch, k + 1)

----------------------------------------------------------------------------
(* Canonical events: identifier and fingerprint *)

UrlCode(url) ==
    CASE url = "https://org-a.example/events" -> 3
      [] url = "https://org-b.example/events" -> 5
      [] OTHER -> 1

HashMod == 101

\* an id hashed from the whole record, so that it changes with any field
EventIdOfRecord(event) ==
    (UrlCode(event.source.url) * 31 + event.start_date
     + 7 * Len(event.description)) % HashMod

\* the event id: a hash of the url and the date
EventId(event) == (UrlCode(event.source.url) * 31 + event.start_date) % HashMod

\* the catalog fingerprint: the normalized title and the day of the start date
Fingerprint(event) == <<NormTitle(event.title), DayOf(event.start_date)>>

CanonicalEvent(rep) ==
    [id |-> EventId(rep.ev), fingerprint |-> Fingerprint(rep.ev), ev |-> rep.ev,
     completeness_score |-> rep.completeness_score,
     missing_fields |-> rep.missing_fields]

\* finalization: one canonical event per cluster, in cluster order
FinalizeClusters(open) ==
    [c \in 1..Len(open) |-> CanonicalEvent(open[c].rep)]

----------------------------------------------------------------------------
(* Catalog: score-monotonic supersession by fingerprint.  The catalog maps
   a fingerprint to the canonical event stored for it. *)

\* supersession that lets the later record win whatever its score
SupersedeAlways(stored, c) ==
    [f \in DOMAIN stored \cup {c.fingerprint} |->
        IF f = c.fingerprint THEN c ELSE stored[f]]

\* one canonical event handed to the catalog
Supersede(stored, c) ==
    IF c.fingerprint \in DOMAIN stored
       /\ c.completeness_score <= stored[c.fingerprint].completeness_score
    THEN stored
    ELSE [f \in DOMAIN stored \cup {c.fingerprint} |->
            IF f = c.fingerprint THEN c ELSE stored[f]]

\* the canonical events of a run handed to the catalog, in order
RECURSIVE StoreRun(_, _)
StoreRun(stored, canonical) ==
    IF canonical = <<>> THEN stored
    ELSE StoreRun(Supersede(stored, Head(canonical)), Tail(canonical))

----------------------------------------------------------------------------
(* Bounds of the model *)

\* events (fragments) per batch
MaxBatch == 3

\* Deduplicator runs over one batch
MaxDedupRuns == 2

\* fragments being assembled at once
MaxWorkers == 2

\* runs handed to the catalog
MaxCatalogRuns == 3

\* events per batch of a run handed to the catalog
MaxCatalogBatch == 2

\* child nodes of a fragment handed to the extractors
MaxNodes == 2

----------------------------------------------------------------------------
(* Scorer: every combination of present / absent weighted fields *)

SampleTitle == <<"Annual", "Conference">>

SampleDate == Instant(6, 0)

ScoreInputs ==
    { [title |-> t, description |-> d, start_date |-> s, event_type |-> y,
       format |-> f, location |-> l, organizer |-> o, registration |-> r,
       source |-> NoSource] :
        t \in {<<>>, SampleTitle}, d \in {<<>>, <<"A", "long", "description">>},
        s \in {NoDate, SampleDate}, y \in {"", "seminar"},
        f \in {"", "online"},
        l \in {NoLocation, [venue |-> "Hall", online_url |-> ""],
               [venue |-> "", online_url |-> "zoom.us/j/1"]},
        o \in {NoOrganizer, [name |-> "APsaA"]},
        r \in {NoRegistration, [url |-> "x.org/register", fee |-> ""],
               [url |-> "", fee |-> "free"]} }

NoScore == [done |-> FALSE, score |-> 0, missing |-> <<>>]

ScoreIdle == sc_in = BlankEvent /\ sc_out = NoScore

ScoreInit == sc_in \in ScoreInputs /\ sc_out = NoScore

ScoreEvent ==
    /\ ~sc_out.done
    /\ LET r == calculate_completeness(sc_in)
       IN sc_out' = [done |-> TRUE, score |-> r.score, missing |-> r.missing_fields]
    /\ UNCHANGED sc_in

----------------------------------------------------------------------------
(* Deduplicator run over a batch of ScoredEvents *)

SourceA == [id |-> "org-a", url |-> "https://org-a.example/events", scraped_at |-> 1]

SourceB == [id |-> "org-b", url |-> "https://org-b.example/events", scraped_at |-> 2]

\* the events batches are drawn from: the same conference announced by two
\* sources on the same day, the next day and a week later, under titles
\* that differ in case and punctuation, with different fields filled in
EventPool ==
    { [BlankEvent EXCEPT !.title = <<"Annual", "Conference">>,
                         !.start_date = Instant(6, 0),
                         !.source = SourceA],
      [BlankEvent EXCEPT !.title = <<"Annual", "Conference">>,
                         !.start_date = Instant(7, 0), !.format = "in-person",
                         !.description = <<"Three", "days", "of", "papers">>,
                         !.location = [venue |-> "Hall", online_url |-> ""],
                         !.source = SourceB],
      [BlankEvent EXCEPT !.title = <<"annual", "conference!">>,
                         !.start_date = Instant(6, 1), !.format = "hybrid",
                         !.registration = [url |-> "x.org/register", fee |-> "$50"],
                         !.source = SourceB],
      [BlankEvent EXCEPT !.title = <<"Annual", "Conference">>,
                         !.start_date = Instant(13, 0),
                         !.organizer = [name |-> "APsaA"],
                         !.source = SourceA],
      [BlankEvent EXCEPT !.title = <<"ANNUAL:", "Conference", "2025">>,
                         !.start_date = Instant(7, 1), !.format = "online",
                         !.event_type = "conference",
                         !.source = SourceA],
      [BlankEvent EXCEPT !.title = <<"Clinical", "Seminar">>,
                         !.start_date = Instant(7, 0), !.format = "online",
                         !.source = SourceA],
      [BlankEvent EXCEPT !.start_date = Instant(6, 0), !.format = "online",
                         !.source = SourceB],
      [BlankEvent EXCEPT !.title = <<"Annual", "Conference">>,
                         !.format = "online",
                         !.location = [venue |-> "", online_url |-> "zoom.us/j/1"],
                         !.source = SourceB] }

Batches(pool) ==
    UNION {[1..n -> {ScoredEvent(e) : e \in pool}] : n \in 0..MaxBatch}

DedupIdle ==
    /\ dd_batch = <<>> /\ dd_idx = 1 /\ dd_phase = "idle" /\ dd_run = 0
    /\ clusters = <<>> /\ canon = <<>> /\ prevCanon = <<>> /\ prevClusters = <<>>

DedupInit ==
    /\ dd_batch \in Batches(EventPool)
    /\ dd_idx = 1 /\ dd_phase = "clustering" /\ dd_run = 1
    /\ clusters = <<>> /\ canon = <<>> /\ prevCanon = <<>> /\ prevClusters = <<>>

\* the open-cluster set a run starts from, given the one the last run left
OpenClustersKept(left) == left

OpenClustersAtStart(left) == <<>>

\* place the next event of the batch
ClusterNext ==
    /\ dd_phase = "clustering"
    /\ dd_idx <= Len(dd_batch)
    /\ clusters' = AddToClusters(clusters, dd_batch, dd_idx)
    /\ dd_idx' = dd_idx + 1
    /\ UNCHANGED <<dd_batch, dd_phase, dd_run, canon, prevCanon, prevClusters>>

\* finalization, once every event of the batch has been placed
Finalize ==
    /\ dd_phase = "clustering"
    /\ dd_idx > Len(dd_batch)
    /\ canon' = FinalizeClusters(clusters)
    /\ dd_phase' = "finalized"
    /\ UNCHANGED <<dd_batch, dd_idx, dd_run, clusters, prevCanon, prevClusters>>

\* the Deduplicator run again on the same batch, in the same order
RunAgain ==
    /\ dd_phase = "finalized"
    /\ dd_run < MaxDedupRuns
    /\ prevCanon' = canon
    /\ prevClusters' = clusters
    /\ clusters' = OpenClustersAtStart(clusters)
    /\ canon' = <<>>
    /\ dd_idx' = 1
    /\ dd_phase' = "clustering"
    /\ dd_run' = dd_run + 1
    /\ UNCHANGED dd_batch

----------------------------------------------------------------------------
(* PipelineOrchestrator: Assembler -> Scorer for every fragment of the
   batch, in any order and up to MaxWorkers at once, then the Deduplicator
   once over the full batch of ScoredEvents. *)

Fragment(nodes) == [parseable |-> TRUE, nodes |-> nodes]

\* something that is no parseable document
Unparseable == [parseable |-> FALSE, nodes |-> <<>>]

\* the fragments batches are drawn from: title and date, title only, date
\* only (an empty time element with a datetime attribute), nothing at all,
\* a title beside an unreadable datetime attribute, and no document
FragPool ==
    << [frag |-> Fragment(<<Node("h2", <<"Annual", "Conference">>, "", ""),
                           Node("time", <<"June", "1">>, "2025-06-01", "")>>),
       source |-> SourceA],
      [frag |-> Fragment(<<Node("h2", <<"Annual", "Conference">>, "", ""),
                           Node(".date", <<"2025-06-02">>, "", "")>>),
       source |-> SourceB],
      [frag |-> Fragment(<<Node("h2", <<"Clinical", "Seminar">>, "", "")>>),
       source |-> SourceA],
      [frag |-> Fragment(<<Node("time", <<>>, "2025-06-01", "")>>),
       source |-> SourceB],
      [frag |-> Fragment(<<>>), source |-> SourceA],
      [frag |-> Fragment(<<Node("h2", <<"Clinical", "Seminar">>, "", ""),
                           Node("time", <<"TBA">>, "TBA", "")>>),
       source |-> SourceB],
      [frag |-> Unparseable, source |-> SourceA] >>

\* the batches of at most MaxBatch fragments; the order of a batch does not
\* matter (its fragments are processed in any order), so one order stands
\* for each
FragBatches ==
    UNION {{[k \in 1..n |-> FragPool[ix[k]]] :
              ix \in {f \in [1..n -> 1..Len(FragPool)] :
                        \A a, b \in 1..n : a < b => f[a] <= f[b]}} :
           n \in 0..MaxBatch}

NoStats ==
    [fragments_seen |-> 0, candidates_assembled |-> 0, candidates_skipped |-> 0,
     clusters_formed |-> 0, canonical_emitted |-> 0]

PipeIdle ==
    /\ pl_frags = <<>> /\ pl_state = <<>> /\ pl_order = <<>>
    /\ pl_scored = <<>> /\ pl_stats = NoStats /\ pl_pc = "idle"

PipeInit ==
    /\ pl_frags \in FragBatches
    /\ pl_state = [i \in 1..Len(pl_frags) |-> "todo"]
    /\ pl_order = <<>> /\ pl_scored = <<>> /\ pl_stats = NoStats
    /\ pl_pc = "assemble"

Finished(state) == {i \in 1..Len(state) : state[i] \in {"ok", "skipped"}}

\* a barrier that only waits for the fragments not yet started
BarrierNoneWaiting(state) == \A i \in 1..Len(state) : state[i] # "todo"

\* the barrier before deduplication: every fragment assembled-and-scored
\* or skipped
BarrierReached(state) == Finished(state) = 1..Len(state)

\* a worker takes a fragment
StartFragment(i) ==
    /\ pl_pc = "assemble"
    /\ pl_state[i] = "todo"
    /\ Cardinality({j \in 1..Len(pl_state) : pl_state[j] = "busy"}) < MaxWorkers
    /\ pl_state' = [pl_state EXCEPT ![i] = "busy"]
    /\ UNCHANGED <<pl_frags, pl_order, pl_scored, pl_stats, pl_pc>>

\* the worker's fragment assembled and scored, or skipped; an exception
\* that leaves the assembler ends the run
FinishFragment(i) ==
    /\ pl_pc = "assemble"
    /\ pl_state[i] = "busy"
    /\ LET r == parse_event_from_html(pl_frags[i].frag, pl_frags[i].source)
       IN CASE r.outcome = "event" ->
                 /\ pl_state' = [pl_state EXCEPT ![i] = "ok"]
                 /\ pl_scored' = Append(pl_scored, ScoredEvent(r.event))
                 /\ pl_order' = Append(pl_order, i)
                 /\ pl_stats' = [pl_stats EXCEPT
                       !.fragments_seen = @ + 1, !.candidates_assembled = @ + 1]
                 /\ UNCHANGED pl_pc
            [] r.outcome = "none" ->
                 /\ pl_state' = [pl_state EXCEPT ![i] = "skipped"]
                 /\ pl_order' = Append(pl_order, i)
                 /\ pl_stats' = [pl_stats EXCEPT
                       !.fragments_seen = @ + 1, !.candidates_skipped = @ + 1]
                 /\ UNCHANGED <<pl_scored, pl_pc>>
            [] OTHER ->
                 /\ pl_pc' = "aborted"
                 /\ UNCHANGED <<pl_state, pl_order, pl_scored, pl_stats>>
    /\ UNCHANGED pl_frags

\* the Deduplicator is started on the batch of ScoredEvents
StartDedup ==
    /\ pl_pc = "assemble"
    /\ BarrierReached(pl_state)
    /\ pl_pc' = "dedup"
    /\ dd_batch' = pl_scored
    /\ dd_idx' = 1
    /\ dd_phase' = "clustering"
    /\ dd_run' = dd_run + 1
    /\ clusters' = OpenClustersAtStart(clusters)
    /\ canon' = <<>>
    /\ UNCHANGED <<prevCanon, prevClusters>>
    /\ UNCHANGED <<pl_frags, pl_state, pl_order, pl_scored, pl_stats>>

\* the run's result handed over with its statistics
FinishRun ==
    /\ pl_pc = "dedup"
    /\ dd_phase = "finalized"
    /\ pl_pc' = "done"
    /\ pl_stats' = [pl_stats EXCEPT !.clusters_formed = Len(clusters),
                                    !.canonical_emitted = Len(canon)]
    /\ UNCHANGED <<pl_frags, pl_state, pl_order, pl_scored>>

----------------------------------------------------------------------------
(* Pipeline startup: the weight table is read and checked before the first
   fragment is taken. *)

\* a weight table with the weight of one field replaced
WithWeight(table, field, w) ==
    [i \in 1..Len(table) |->
        IF table[i][1] = field THEN <<field, w>> ELSE table[i]]

\* the tables a run may be started with: the weight table of the scorer,
\* one summing to 90, one summing to 110 and one with a field left out
ConfigTables ==
    { Weights,
      WithWeight(Weights, "title", 10),
      WithWeight(Weights, "title", 30),
      SubSeq(Weights, 1, Len(Weights) - 1) }

WeightSum(table) == SeqSum([i \in 1..Len(table) |-> table[i][2]])

WeightTotal == 100

\* a check that only rejects a table summing to more than the total
ValidWeightsAtMost(table) == WeightSum(table) <= WeightTotal

ValidWeights(table) == WeightSum(table) = WeightTotal

ConfigInit ==
    /\ cfg_weights \in ConfigTables
    /\ pl_frags \in FragBatches
    /\ pl_state = [i \in 1..Len(pl_frags) |-> "todo"]
    /\ pl_order = <<>> /\ pl_scored = <<>> /\ pl_stats = NoStats
    /\ pl_pc = "init"

\* initialization: a table that does not sum to the total is a configuration
\* error, which ends the run
Initialize ==
    /\ pl_pc = "init"
    /\ pl_pc' = IF ValidWeights(cfg_weights) THEN "assemble" ELSE "config_error"
    /\ UNCHANGED <<pl_frags, pl_state, pl_order, pl_scored, pl_stats>>

----------------------------------------------------------------------------
(* Catalog across runs *)

\* the announcements of the conference of the first two days
CatalogPool ==
    {e \in EventPool :
        /\ "annual" \in NormTitle(e.title)
        /\ e.start_date # NoDate
        /\ DayOf(e.start_date) < 13}

CatalogBatches ==
    UNION {[1..n -> {ScoredEvent(e) : e \in CatalogPool}] : n \in 1..MaxCatalogBatch}

CatIdle == catalog = <<>> /\ emitted = <<>> /\ cat_runs = 0

\* one run: its batch deduplicated and the canonical events handed to the
\* catalog
RunAndStore ==
    /\ cat_runs < MaxCatalogRuns
    /\ \E batch \in CatalogBatches :
          /\ emitted' = FinalizeClusters(DeduplicateFrom(<<>>, batch, 1))
          /\ catalog' = StoreRun(catalog, emitted')
    /\ cat_runs' = cat_runs + 1

----------------------------------------------------------------------------
(* NewsletterParser.  The body of an email is a sequence of blocks in
   document order; a block has a class or tag (cls) and child nodes. *)

Block(cls, nodes) == [cls |-> cls, nodes |-> nodes]

\* soup.select(selector): the indices of the blocks that answer to the
\* selector, in document order; '.event, [class*="event"]' answers to a
\* class that contains "event", 'li, tr' to list items and table rows
RECURSIVE select_blocks(_, _, _)
select_blocks(body, classes, i) ==
    IF i > Len(body) THEN <<>>
    ELSE IF body[i].cls \in classes
         THEN <<i>> \o select_blocks(body, classes, i + 1)
         ELSE select_blocks(body, classes, i + 1)

EventClasses == {"event", "event-card", "upcoming-events"}

GenericTags == {"li", "tr"}

\* a token one of the date_indicators matches within, case-insensitively:
\* slash and ISO digit shapes, month names, weekday abbreviations, also as
\* part of a longer word
DateIndicator(tok) ==
    tok \in {"2025-06-01", "2025-06-01T18:00", "2025-06-02", "6/2/2025",
             "13/32/2025", "June 8, 2025", "8 June 2025", "8th of June 2025",
             "June", "Mon", "Sunday", "Maybe"}

\* NewsletterParser._contains_date
contains_date(text) == \E i \in 1..Len(text) : DateIndicator(text[i])

\* the loop of parse_newsletter over event_sections from section k on;
\* handed lists the sections given to the assembler, events the events
\* appended, each with the block it came from
RECURSIVE NewsletterLoop(_, _, _, _, _, _)
NewsletterLoop(body, sections, k, handed, events, source_info) ==
    IF k > Len(sections)
    THEN [sections |-> sections, handed |-> handed, events |-> events]
    ELSE LET b == sections[k]
             event == parse_event_from_html(Fragment(body[b].nodes), source_info)
         IN IF contains_date(get_text(body[b].nodes))
            THEN IF event.outcome = "event"
                 THEN NewsletterLoop(body, sections, k + 1, Append(handed, b),
                          Append(events, [block |-> b, event |-> event.event]),
                          source_info)
                 ELSE NewsletterLoop(body, sections, k + 1, Append(handed, b),
                                     events, source_info)
            ELSE NewsletterLoop(body, sections, k + 1, handed, events, source_info)

\* the loop without the date-indicator scan
RECURSIVE NewsletterLoopUnfiltered(_, _, _, _, _, _)
NewsletterLoopUnfiltered(body, sections, k, handed, events, source_info) ==
    IF k > Len(sections)
    THEN [sections |-> sections, handed |-> handed, events |-> events]
    ELSE LET b == sections[k]
             event == parse_event_from_html(Fragment(body[b].nodes), source_info)
         IN IF event.outcome = "event"
            THEN NewsletterLoopUnfiltered(body, sections, k + 1, Append(handed, b),
                     Append(events, [block |-> b, event |-> event.event]),
                     source_info)
            ELSE NewsletterLoopUnfiltered(body, sections, k + 1, Append(handed, b),
                                          events, source_info)

parse_newsletter_unfiltered(body, source_info) ==
    LET event_sections == select_blocks(body, EventClasses, 1)
        sections == IF event_sections = <<>>
                    THEN select_blocks(body, GenericTags, 1) ELSE event_sections
    IN NewsletterLoopUnfiltered(body, sections, 1, <<>>, <<>>, source_info)

\* NewsletterParser.parse_newsletter
parse_newsletter(body, source_info) ==
    LET event_sections == select_blocks(body, EventClasses, 1)
        sections == IF event_sections = <<>>
                    THEN select_blocks(body, GenericTags, 1) ELSE event_sections
    IN NewsletterLoop(body, sections, 1, <<>>, <<>>, source_info)

\* blocks of an email body
MaxBlocks == 3

\* the blocks bodies are built from: event-marked blocks with and without a
\* date indicator, one whose date attribute is unreadable, list items and
\* table rows with and without one, a paragraph
BlockPool ==
    { Block("event", <<Node("h2", <<"Annual", "Conference">>, "", ""),
                       Node(".date", <<"2025-06-02">>, "", "")>>),
      Block("event-card", <<Node("h2", <<"Clinical", "Seminar">>, "", "")>>),
      Block("upcoming-events", <<Node("h2", <<"Reading", "Group">>, "", ""),
                                 Node("time", <<"Mon">>, "TBA", "")>>),
      Block("li", <<Node("a", <<"Clinical", "Seminar">>, "", "x.org/register"),
                    Node("div", <<"June 8, 2025">>, "", "")>>),
      Block("li", <<Node("a", <<"Unsubscribe">>, "", "")>>),
      Block("tr", <<Node("div", <<"Maybe", "later">>, "", "")>>),
      Block("p", <<Node("div", <<"2025-06-01">>, "", "")>>) }

Bodies == UNION {[1..n -> BlockPool] : n \in 0..MaxBlocks}

NoNews == [done |-> FALSE, sections |-> <<>>, handed |-> <<>>, events |-> <<>>]

NewsIdle == nl_body = <<>> /\ nl_out = NoNews

NewsInit == nl_body \in Bodies /\ nl_out = NoNews

\* one newsletter parsed
ParseNewsletter ==
    /\ ~nl_out.done
    /\ LET r == parse_newsletter(nl_body, SourceB)
       IN nl_out' = [done |-> TRUE, sections |-> r.sections,
                     handed |-> r.handed, events |-> r.events]
    /\ UNCHANGED nl_body

----------------------------------------------------------------------------
(* The extractors applied to one fragment *)

\* the child nodes fragments are built from: headings (one of them blank),
\* links, date elements with and without a datetime attribute, with and
\* without readable text, free text with dates, format keywords and fees,
\* a venue element
NodePool ==
    { Node("h2", <<"Annual", "Conference">>, "", ""),
      Node("h2", <<Space>>, "", ""),
      Node("h3", <<"Reading", "Group">>, "", ""),
      Node("a", <<"Clinical", "Seminar">>, "", "x.org/register"),
      Node("a", <<"Join">>, "", "zoom.us/j/1"),
      Node("time", <<"2025-06-01">>, "2025-06-01T18:00", ""),
      Node("time", <<"TBA">>, "TBA", ""),
      Node(".date", <<"sometime", "in", "spring">>, "", ""),
      Node(".date", <<"2025-06-02">>, "", ""),
      Node(".date", <<"June", "2">>, "2025-06-02", ""),
      Node("p", <<"8th of June 2025">>, "", ""),
      Node("p", <<"13/32/2025", "2025-06-01", "June 8, 2025">>, "", ""),
      Node("div", <<"Zoom", "and", "Hybrid">>, "", ""),
      Node("div", <<"In-Person", "or", "Zoom">>, "", ""),
      Node("div", <<"In-Person">>, "", ""),
      Node("div", <<"Free", "or", "$50">>, "", ""),
      Node("div", <<"complimentary", "No charge">>, "", ""),
      Node(".venue", <<"Main", "Hall">>, "", ""),
      Node("div", <<"please", "come">>, "", "") }

Fragments == UNION {[1..n -> NodePool] : n \in 0..MaxNodes}

NoExtract ==
    [done |-> FALSE, title |-> <<>>, description |-> <<>>,
     date |-> Returned(NoDate), date_stages |-> <<>>, format |-> "",
     location |-> NoLocation, registration |-> NoRegistration,
     result |-> [outcome |-> "none", event |-> BlankEvent],
     scored |-> ScoredEvent(BlankEvent)]

ExtractIdle == ex_nodes = <<>> /\ ex_out = NoExtract

ExtractInit == ex_nodes \in Fragments /\ ex_out = NoExtract

\* every extractor, and the assembler and the scorer after them, applied
\* to the fragment
ExtractFields ==
    /\ ~ex_out.done
    /\ LET result == parse_event_from_html(Fragment(ex_nodes), SourceA)
       IN ex_out' =
            [done |-> TRUE,
             title |-> extract_title(ex_nodes),
             description |-> extract_description(ex_nodes),
             date |-> extract_date(ex_nodes),
             date_stages |-> extract_date_stages(ex_nodes),
             format |-> detect_format(ex_nodes),
             location |-> extract_location(ex_nodes),
             registration |-> extract_registration(ex_nodes),
             result |-> result,
             scored |-> ScoredEvent(result.event)]
    /\ UNCHANGED ex_nodes

----------------------------------------------------------------------------
(* The web page: App keeps the filters and the sort option, useEvents the
   loaded events; the displayed list is computed from them on every render.
   The texts of the page are sequences of letters, so that a search can hit
   inside a word. *)

\* String.prototype.toLowerCase on one letter
LowerOf(c) ==
    CASE c = "A" -> "a" [] c = "D" -> "d" [] c = "E" -> "e" [] c = "G" -> "g"
      [] c = "I" -> "i" [] c = "O" -> "o" [] c = "P" -> "p" [] OTHER -> c

toLowerCase(str) == [i \in 1..Len(str) |-> LowerOf(str[i])]

\* String.prototype.includes
includes(str, sub) ==
    \E i \in 0..(Len(str) - Len(sub)) : SubSeq(str, i + 1, i + Len(sub)) = sub

\* Array.prototype.includes
ArrayIncludes(arr, v) == \E i \in 1..Len(arr) : arr[i] = v

\* new Date(s) for the date strings of the page: a date-only string is the
\* midnight that begins the day; NoDate stands for an invalid date
NewDate(s) ==
    CASE s = "2025-06-04" -> Instant(9, 0)
      [] s = "2025-06-01T18:00:00Z" -> Instant(6, 1)
      [] s = "2025-06-04T00:00:00Z" -> Instant(9, 0)
      [] s = "2025-06-04T18:00:00Z" -> Instant(9, 1)
      [] s = "2025-06-08T18:00:00Z" -> Instant(13, 1)
      [] OTHER -> NoDate

\* new Date(9999, 11, 31), after every date of the model
FarFuture == Instant(9999, 0)

NoFilters ==
    [search |-> <<>>, format |-> <<>>, eventType |-> <<>>,
     startDate |-> "", endDate |-> "", organization |-> <<>>]

FORMAT_OPTIONS == <<"online", "in-person", "hybrid">>

EVENT_TYPES ==
    <<"conference", "workshop", "lecture", "seminar", "webinar", "course">>

SortOptions == {"date", "title", "completeness"}

\* the organizations offered by the dropdown
organizations(events) ==
    {events[i].organizer.name : i \in 1..Len(events)} \ {<<>>}

\* a.localeCompare(b) for the titles of the model: "" before "Ego" before "id"
TitleRank(title) ==
    CASE title = <<>> -> 0
      [] title = <<"E", "g", "o">> -> 1
      [] OTHER -> 2

\* the completeness_score of an event of events.json that has none
MissingScore == -1

\* e.completeness_score || 0
ScoreOrZero(e) ==
    IF e.completeness_score = MissingScore THEN 0 ELSE e.completeness_score

\* a comparator that takes an event with no start_date for the earliest
CompareEventsUndatedFirst(a, b, sortBy) ==
    CASE sortBy = "date" ->
           (IF a.start_date # "" THEN NewDate(a.start_date) ELSE NoDate)
           - (IF b.start_date # "" THEN NewDate(b.start_date) ELSE NoDate)
      [] sortBy = "title" -> TitleRank(a.title) - TitleRank(b.title)
      [] sortBy = "completeness" -> ScoreOrZero(b) - ScoreOrZero(a)
      [] OTHER -> 0

\* the comparator handed to result.sort
CompareEvents(a, b, sortBy) ==
    CASE sortBy = "date" ->
           (IF a.start_date # "" THEN NewDate(a.start_date) ELSE FarFuture)
           - (IF b.start_date # "" THEN NewDate(b.start_date) ELSE FarFuture)
      [] sortBy = "title" -> TitleRank(a.title) - TitleRank(b.title)
      [] sortBy = "completeness" -> ScoreOrZero(b) - ScoreOrZero(a)
      [] OTHER -> 0

\* Array.prototype.sort, which is stable: e goes before the first element
\* that has to come after it
InsertSorted(sorted, e, sortBy) ==
    LET later == {i \in 1..Len(sorted) : CompareEvents(sorted[i], e, sortBy) > 0}
        at == IF later = {} THEN Len(sorted) + 1 ELSE MinOf(later)
    IN SubSeq(sorted, 1, at - 1) \o <<e>> \o SubSeq(sorted, at, Len(sorted))

RECURSIVE SortLoop(_, _, _, _)
SortLoop(result, i, sorted, sortBy) ==
    IF i > Len(result) THEN sorted
    ELSE SortLoop(result, i + 1, InsertSorted(sorted, result[i], sortBy), sortBy)

SortEvents(result, sortBy) == SortLoop(result, 1, <<>>, sortBy)

\* the search hits the title, the description or the organizer's name
SearchHit(e, searchLower) ==
    \/ includes(toLowerCase(e.title), searchLower)
    \/ includes(toLowerCase(e.description), searchLower)
    \/ includes(toLowerCase(e.organizer.name), searchLower)

\* App.filteredEvents: the filters one after the other, then the sort; a
\* comparison with an invalid date is false
filteredEvents(events, filters, sortBy) ==
    LET f1 == IF filters.search # <<>>
              THEN SelectSeq(events,
                     LAMBDA e : SearchHit(e, toLowerCase(filters.search)))
              ELSE events
        f2 == IF Len(filters.format) > 0
              THEN SelectSeq(f1, LAMBDA e : ArrayIncludes(filters.format, e.format))
              ELSE f1
        f3 == IF Len(filters.eventType) > 0
              THEN SelectSeq(f2,
                     LAMBDA e : ArrayIncludes(filters.eventType, e.event_type))
              ELSE f2
        f4 == IF filters.organization # <<>>
              THEN SelectSeq(f3, LAMBDA e : e.organizer.name = filters.organization)
              ELSE f3
        f5 == IF filters.startDate # ""
              THEN SelectSeq(f4,
                     LAMBDA e : /\ e.start_date # ""
                                /\ NewDate(e.start_date) # NoDate
                                /\ NewDate(filters.startDate) # NoDate
                                /\ NewDate(e.start_date) >= NewDate(filters.startDate))
              ELSE f4
        f6 == IF filters.endDate # ""
              THEN SelectSeq(f5,
                     LAMBDA e : /\ e.start_date # ""
                                /\ NewDate(e.start_date) # NoDate
                                /\ NewDate(filters.endDate) # NoDate
                                /\ NewDate(e.start_date) <= NewDate(filters.endDate))
              ELSE f5
    IN SortEvents(f6, sortBy)

\* an event of events.json as the page reads it; a field that is missing is
\* the empty text
UiEvent(title, description, organizer, format, event_type, start_date, score) ==
    [title |-> title, description |-> description,
     organizer |-> [name |-> organizer], format |-> format,
     event_type |-> event_type, start_date |-> start_date,
     completeness_score |-> score]

\* events.json holds at most MaxUiEvents events
MaxUiEvents == 2

\* the events the loaded list is drawn from: an evening event on 8 June, an
\* evening event on 1 June, an event with no field at all, an event at the
\* midnight that begins 4 June and an evening event on 4 June
UiPool ==
    << UiEvent(<<"E", "g", "o">>, <<>>, <<"I", "P", "A">>, "online",
               "conference", "2025-06-08T18:00:00Z", 80),
       UiEvent(<<"i", "d">>, <<"E", "G", "O">>, <<"A", "P", "A">>, "in-person",
               "lecture", "2025-06-01T18:00:00Z", 50),
       UiEvent(<<>>, <<>>, <<>>, "", "", "", MissingScore),
       UiEvent(<<"E", "g", "o">>, <<"i", "d">>, <<"I", "P", "A">>, "hybrid",
               "conference", "2025-06-04T00:00:00Z", 70),
       UiEvent(<<"i", "d">>, <<>>, <<"i", "p", "a">>, "online",
               "lecture", "2025-06-04T18:00:00Z", 90) >>

\* the bodies events.json may hold, one order for each choice of events
UiBatches ==
    UNION {{[k \in 1..n |-> UiPool[ix[k]]] :
              ix \in {f \in [1..n -> 1..Len(UiPool)] :
                        \A a, b \in 1..n : a < b => f[a] >= f[b]}} :
           n \in 1..MaxUiEvents}

\* what the visitor types into the search box
SearchInputs == {<<>>, <<"e", "G">>, <<"p", "a">>}

\* the formats and event types the visitor clicks
FormatInputs == {FORMAT_OPTIONS[1], FORMAT_OPTIONS[3]}

TypeInputs == {EVENT_TYPES[1], EVENT_TYPES[3]}

\* the day picked in the From Date and To Date inputs
DateInputs == {"", "2025-06-04"}

UiIdle == ui_events = <<>> /\ ui_filters = NoFilters /\ ui_sortBy = "date"

\* useEvents: setEvents(data) once the fetch has answered
SetEvents ==
    /\ ui_events = <<>>
    /\ ui_events' \in UiBatches
    /\ UNCHANGED <<ui_filters, ui_sortBy>>

handleSearchChange(value) ==
    /\ ui_filters' = [ui_filters EXCEPT !.search = value]
    /\ UNCHANGED <<ui_events, ui_sortBy>>

\* prev.format.filter(f => f !== format)
Without(arr, v) == SelectSeq(arr, LAMBDA x : x # v)

\* a toggle that adds the value whether or not it is selected
ToggledAlwaysAdded(arr, v) == Append(arr, v)

\* prev.x.includes(v) ? prev.x.filter(f => f !== v) : [...prev.x, v]
Toggled(arr, v) ==
    IF ArrayIncludes(arr, v) THEN Without(arr, v) ELSE Append(arr, v)

toggleFormat(format) ==
    /\ ui_filters' = [ui_filters EXCEPT !.format = Toggled(@, format)]
    /\ UNCHANGED <<ui_events, ui_sortBy>>

toggleEventType(type) ==
    /\ ui_filters' = [ui_filters EXCEPT !.eventType = Toggled(@, type)]
    /\ UNCHANGED <<ui_events, ui_sortBy>>

SetStartDate(value) ==
    /\ ui_filters' = [ui_filters EXCEPT !.startDate = value]
    /\ UNCHANGED <<ui_events, ui_sortBy>>

SetEndDate(value) ==
    /\ ui_filters' = [ui_filters EXCEPT !.endDate = value]
    /\ UNCHANGED <<ui_events, ui_sortBy>>

SetOrganization(value) ==
    /\ ui_filters' = [ui_filters EXCEPT !.organization = value]
    /\ UNCHANGED <<ui_events, ui_sortBy>>

\* a clearing that leaves the search text in place
clearFiltersKeepsSearch ==
    /\ ui_filters' = [search |-> ui_filters.search, format |-> <<>>,
                      eventType |-> <<>>, startDate |-> "", endDate |-> "",
                      organization |-> <<>>]
    /\ UNCHANGED <<ui_events, ui_sortBy>>

clearFilters ==
    /\ ui_filters' = [search |-> <<>>, format |-> <<>>, eventType |-> <<>>,
                      startDate |-> "", endDate |-> "", organization |-> <<>>]
    /\ UNCHANGED <<ui_events, ui_sortBy>>

\* FilterBar: whether any filter is reported active
hasActiveFilters ==
    \/ ui_filters.search # <<>>
    \/ Len(ui_filters.format) > 0
    \/ Len(ui_filters.eventType) > 0
    \/ ui_filters.startDate # ""
    \/ ui_filters.endDate # ""
    \/ ui_filters.organization # <<>>

SetSortBy(value) ==
    /\ ui_sortBy' = value
    /\ UNCHANGED <<ui_events, ui_filters>>

\* the list handed to EventList and the two counts handed to FilterBar
Displayed == filteredEvents(ui_events, ui_filters, ui_sortBy)

eventCount == Len(Displayed)

totalCount == Len(ui_events)

----------------------------------------------------------------------------
(* CompletenessIndicator: the band of a score and the tooltip with the
   missing fields. *)

\* a banding whose upper band begins above 80
ScoreBandAbove(score) ==
    IF score > 80
    THEN [label |-> "Complete", colorClass |-> "completeness-high"]
    ELSE IF score >= 50
         THEN [label |-> "Partial", colorClass |-> "completeness-medium"]
         ELSE [label |-> "Incomplete", colorClass |-> "completeness-low"]

\* "Determine color based on score"
ScoreBand(score) ==
    IF score >= 80
    THEN [label |-> "Complete", colorClass |-> "completeness-high"]
    ELSE IF score >= 50
         THEN [label |-> "Partial", colorClass |-> "completeness-medium"]
         ELSE [label |-> "Incomplete", colorClass |-> "completeness-low"]

\* whether the tooltip with the missing fields is rendered
TooltipShown == ci_showTooltip /\ Len(ci_missing) > 0

\* the missing_fields lists an indicator is given
MissingLists ==
    {<<>>, <<"description">>, <<"location", "registration.url">>}

IndicatorIdle ==
    /\ ci_score = 0 /\ ci_missing = <<>>
    /\ ci_hovered = FALSE /\ ci_showTooltip = FALSE

\* an indicator as rendered for an event: any score from 0 to 100
IndicatorInit ==
    /\ ci_score \in 0..100
    /\ ci_missing \in MissingLists
    /\ ci_hovered = FALSE /\ ci_showTooltip = FALSE

onMouseEnter ==
    /\ ~ci_hovered
    /\ ci_hovered' = TRUE
    /\ ci_showTooltip' = TRUE
    /\ UNCHANGED <<ci_score, ci_missing>>

onMouseLeave ==
    /\ ci_hovered
    /\ ci_hovered' = FALSE
    /\ ci_showTooltip' = FALSE
    /\ UNCHANGED <<ci_score, ci_missing>>

----------------------------------------------------------------------------
(* SubmitEventModal: a form that generates the JSON of an event for the
   visitor to copy or mail; App only opens and closes it. *)

InitialForm ==
    [title |-> "", date |-> "", url |-> "", organization |-> "",
     description |-> "", format |-> "online", eventType |-> "workshop"]

\* the values the visitor gives to the inputs of the form, by input name
FormValues ==
    [title |-> {"", "Ego"}, date |-> {"", "2025-06-04"},
     url |-> {"", "https://org-a.example/ego"}, organization |-> {"", "IPA"},
     description |-> {"", "A talk"},
     format |-> {"online", "in-person", "hybrid"}]

\* the object generateJson hands to JSON.stringify
generateJson(formData) ==
    [title |-> formData.title, start_date |-> formData.date,
     registration |-> [url |-> formData.url],
     organizer |-> [name |-> formData.organization],
     description |-> formData.description, format |-> formData.format,
     event_type |-> formData.eventType]

NoClipboard == [written |-> FALSE, text |-> generateJson(InitialForm)]

ModalIdle ==
    /\ md_open = FALSE /\ md_form = InitialForm
    /\ md_submitted = FALSE /\ md_clipboard = NoClipboard

\* App: onClick of the Submit Event button
OpenModal ==
    /\ ~md_open
    /\ md_open' = TRUE
    /\ UNCHANGED <<md_form, md_submitted, md_clipboard>>

handleChange(name, value) ==
    /\ md_open /\ ~md_submitted
    /\ md_form' = [md_form EXCEPT ![name] = value]
    /\ UNCHANGED <<md_open, md_submitted, md_clipboard>>

\* a submit that also empties the form
handleSubmitClearsForm ==
    /\ md_open /\ ~md_submitted
    /\ md_form.title # "" /\ md_form.date # "" /\ md_form.url # ""
    /\ md_submitted' = TRUE
    /\ md_form' = InitialForm
    /\ UNCHANGED <<md_open, md_clipboard>>

\* Generate Submission: the form submits once its required inputs are filled
handleSubmit ==
    /\ md_open /\ ~md_submitted
    /\ md_form.title # "" /\ md_form.date # "" /\ md_form.url # ""
    /\ md_submitted' = TRUE
    /\ UNCHANGED <<md_open, md_form, md_clipboard>>

handleCopy ==
    /\ md_open /\ md_submitted
    /\ md_clipboard' = [written |-> TRUE, text |-> generateJson(md_form)]
    /\ UNCHANGED <<md_open, md_form, md_submitted>>

\* Back to Edit
BackToEdit ==
    /\ md_open /\ md_submitted
    /\ md_submitted' = FALSE
    /\ UNCHANGED <<md_open, md_form, md_clipboard>>

\* a closing that only hides the modal
handleCloseKeepsState ==
    /\ md_open
    /\ md_open' = FALSE
    /\ UNCHANGED <<md_form, md_submitted, md_clipboard>>

handleClose ==
    /\ md_open
    /\ md_form' = [title |-> "", date |-> "", url |-> "", organization |-> "",
                   description |-> "", format |-> "online",
                   eventType |-> "workshop"]
    /\ md_submitted' = FALSE
    /\ md_open' = FALSE
    /\ UNCHANGED md_clipboard

----------------------------------------------------------------------------
(* useEvents: the hook fetches dataUrl when it mounts and whenever dataUrl
   changes; each fetch sets the state of the hook when it settles.  Nothing
   cancels a fetch, so several can be in flight. *)

\* null, for error and lastUpdated
Null == "null"

\* what a fetch of a url can come to: fetch rejects; the status is not OK;
\* the body is no JSON; or the body is JSON: an array of events, an object
\* with an events list (with or without metadata.last_updated), an object
\* without one, or null
Response(outcome, events, last_updated) ==
    [outcome |-> outcome, events |-> events, last_updated |-> last_updated]

Responses ==
    { Response("network_error", <<>>, Null),
      Response("not_ok", <<>>, Null),
      Response("invalid_json", <<>>, Null),
      Response("array", <<UiPool[1]>>, Null),
      Response("wrapped", <<UiPool[2], UiPool[4]>>, "2025-06-01"),
      Response("wrapped", <<UiPool[5]>>, Null),
      Response("object", <<>>, Null),
      Response("null", <<>>, Null) }

\* err.message of what fetchEvents catches
ErrorMessage(r) ==
    CASE r.outcome = "network_error" -> "Failed to fetch"
      [] r.outcome = "not_ok" -> "Failed to fetch events: 404"
      [] r.outcome = "invalid_json" -> "Unexpected token < in JSON"
      [] r.outcome = "null" -> "Cannot read properties of null"
      [] OTHER -> Null

\* whether fetchEvents ends in its catch block: a rejected fetch, a status
\* that is not OK, a body that is no JSON, and data.events read on null
Throws(r) == r.outcome \in {"network_error", "not_ok", "invalid_json", "null"}

DataUrls == {"./data/events.json", "./data/archive.json"}

\* fetches started by one mounted hook
MaxFetches == 3

HookIdle ==
    /\ ue_url = Null /\ ue_loading = TRUE /\ ue_error = Null
    /\ ue_lastUpdated = Null /\ ue_fetches = <<>> /\ ue_server = <<>>

\* the first render: useState(true) for loading, [] for events, null for
\* error and lastUpdated; the effect has not run yet
HookInit ==
    /\ ue_url = Null /\ ue_loading = TRUE /\ ue_error = Null
    /\ ue_lastUpdated = Null /\ ue_fetches = <<>>
    /\ ue_server \in [DataUrls -> Responses]
    /\ ui_events = <<>> /\ ui_filters = NoFilters /\ ui_sortBy = "date"

\* the effect runs for dataUrl: fetchEvents sets loading and clears error,
\* then awaits the fetch
RunEffect(dataUrl) ==
    /\ Len(ue_fetches) < MaxFetches
    /\ dataUrl # ue_url
    /\ ue_url' = dataUrl
    /\ ue_loading' = TRUE
    /\ ue_error' = Null
    /\ ue_fetches' = Append(ue_fetches, [url |-> dataUrl, pending |-> TRUE])
    /\ UNCHANGED <<ue_lastUpdated, ue_server, ui_events>>

\* the fetch with index k settles and the rest of fetchEvents runs: try,
\* catch and finally
Settle(k) ==
    /\ ue_fetches[k].pending
    /\ ue_fetches' = [ue_fetches EXCEPT ![k].pending = FALSE]
    /\ LET r == ue_server[ue_fetches[k].url]
       IN IF Throws(r)
          THEN /\ ue_error' = ErrorMessage(r)
               /\ ui_events' = <<>>
               /\ UNCHANGED ue_lastUpdated
          ELSE /\ ui_events' = IF r.outcome \in {"array", "wrapped"}
                               THEN r.events ELSE <<>>
               /\ ue_lastUpdated' =
                     IF r.outcome = "wrapped" /\ r.last_updated # Null
                     THEN r.last_updated ELSE ue_lastUpdated
               /\ UNCHANGED ue_error
    /\ ue_loading' = FALSE
    /\ UNCHANGED <<ue_url, ue_server>>

\* the page behind the modal: events loaded, the filters empty or a search
\* typed in
ModalPageInit ==
    /\ ui_events \in UiBatches
    /\ ui_filters \in {NoFilters, [NoFilters EXCEPT !.search = <<"e", "G">>]}
    /\ ui_sortBy = "date"

PageIdle == ModalIdle /\ IndicatorIdle /\ HookIdle

CfgIdle == cfg_weights = <<>>

RestIdle == CfgIdle /\ ExtractIdle /\ NewsIdle /\ UiIdle /\ PageIdle

----------------------------------------------------------------------------
(* Specifications *)

InitScore == ScoreInit /\ DedupIdle /\ PipeIdle /\ CatIdle /\ RestIdle

ScoreNext == ScoreEvent /\ UNCHANGED <<dedupVars, pipeVars, catVars, restVars>>

SpecScore == InitScore /\ [][ScoreNext]_vars

DedupNext ==
    \/ ClusterNext /\ UNCHANGED <<scoreVars, pipeVars, catVars, restVars>>
    \/ Finalize /\ UNCHANGED <<scoreVars, pipeVars, catVars, restVars>>
    \/ RunAgain /\ UNCHANGED <<scoreVars, pipeVars, catVars, restVars>>

InitDedup == ScoreIdle /\ DedupInit /\ PipeIdle /\ CatIdle /\ RestIdle

SpecDedup == InitDedup /\ [][DedupNext]_vars

PipeNext ==
    \/ \E i \in 1..Len(pl_frags) :
          StartFragment(i) /\ UNCHANGED <<scoreVars, dedupVars, catVars, restVars>>
    \/ \E i \in 1..Len(pl_frags) :
          FinishFragment(i) /\ UNCHANGED <<scoreVars, dedupVars, catVars, restVars>>
    \/ StartDedup /\ UNCHANGED <<scoreVars, catVars, restVars>>
    \/ ClusterNext /\ UNCHANGED <<scoreVars, pipeVars, catVars, restVars>>
    \/ Finalize /\ UNCHANGED <<scoreVars, pipeVars, catVars, restVars>>
    \/ FinishRun /\ UNCHANGED <<scoreVars, dedupVars, catVars, restVars>>

InitPipe == ScoreIdle /\ DedupIdle /\ PipeInit /\ CatIdle /\ RestIdle

SpecPipe == InitPipe /\ [][PipeNext]_vars

CatNext == RunAndStore /\ UNCHANGED <<scoreVars, dedupVars, pipeVars, restVars>>

InitCatalog == ScoreIdle /\ DedupIdle /\ PipeIdle /\ CatIdle /\ RestIdle

SpecCatalog == InitCatalog /\ [][CatNext]_vars

ExtractNext ==
    ExtractFields
    /\ UNCHANGED <<scoreVars, dedupVars, pipeVars, catVars, cfgVars, newsVars,
                   uiVars, pageVars>>

InitExtract ==
    /\ ScoreIdle /\ DedupIdle /\ PipeIdle /\ CatIdle
    /\ CfgIdle /\ ExtractInit /\ NewsIdle /\ UiIdle /\ PageIdle

SpecExtract == InitExtract /\ [][ExtractNext]_vars

NewsNext ==
    ParseNewsletter
    /\ UNCHANGED <<scoreVars, dedupVars, pipeVars, catVars, cfgVars, exVars,
                   uiVars, pageVars>>

InitNews ==
    /\ ScoreIdle /\ DedupIdle /\ PipeIdle /\ CatIdle
    /\ CfgIdle /\ ExtractIdle /\ NewsInit /\ UiIdle /\ PageIdle

SpecNews == InitNews /\ [][NewsNext]_vars

ConfigNext ==
    \/ Initialize /\ UNCHANGED <<scoreVars, dedupVars, catVars, restVars>>
    \/ PipeNext

InitConfig ==
    /\ ScoreIdle /\ DedupIdle /\ ConfigInit /\ CatIdle
    /\ ExtractIdle /\ NewsIdle /\ UiIdle /\ PageIdle

SpecConfig == InitConfig /\ [][ConfigNext]_vars

UiOthers ==
    <<scoreVars, dedupVars, pipeVars, catVars, cfgVars, exVars, newsVars, pageVars>>

UiNext ==
    \/ SetEvents /\ UNCHANGED UiOthers
    \/ \E value \in SearchInputs : handleSearchChange(value) /\ UNCHANGED UiOthers
    \/ \E format \in FormatInputs : toggleFormat(format) /\ UNCHANGED UiOthers
    \/ \E type \in TypeInputs : toggleEventType(type) /\ UNCHANGED UiOthers
    \/ \E value \in DateInputs : SetStartDate(value) /\ UNCHANGED UiOthers
    \/ \E value \in DateInputs : SetEndDate(value) /\ UNCHANGED UiOthers
    \/ \E value \in organizations(ui_events) \cup {<<>>} :
          SetOrganization(value) /\ UNCHANGED UiOthers
    \/ clearFilters /\ UNCHANGED UiOthers
    \/ \E value \in SortOptions : SetSortBy(value) /\ UNCHANGED UiOthers

InitUi ==
    /\ ScoreIdle /\ DedupIdle /\ PipeIdle /\ CatIdle
    /\ CfgIdle /\ ExtractIdle /\ NewsIdle /\ UiIdle /\ PageIdle

SpecUi == InitUi /\ [][UiNext]_vars

BackendVars == <<scoreVars, dedupVars, pipeVars, catVars, cfgVars, exVars, newsVars>>

IndicatorNext ==
    \/ onMouseEnter /\ UNCHANGED <<BackendVars, uiVars, modalVars, hookVars>>
    \/ onMouseLeave /\ UNCHANGED <<BackendVars, uiVars, modalVars, hookVars>>

InitIndicator ==
    /\ ScoreIdle /\ DedupIdle /\ PipeIdle /\ CatIdle
    /\ CfgIdle /\ ExtractIdle /\ NewsIdle /\ UiIdle
    /\ ModalIdle /\ IndicatorInit /\ HookIdle

SpecIndicator == InitIndicator /\ [][IndicatorNext]_vars

ModalNext ==
    \/ OpenModal /\ UNCHANGED <<BackendVars, uiVars, indVars, hookVars>>
    \/ \E name \in DOMAIN FormValues : \E value \in FormValues[name] :
          handleChange(name, value) /\ UNCHANGED <<BackendVars, uiVars, indVars, hookVars>>
    \/ handleSubmit /\ UNCHANGED <<BackendVars, uiVars, indVars, hookVars>>
    \/ handleCopy /\ UNCHANGED <<BackendVars, uiVars, indVars, hookVars>>
    \/ BackToEdit /\ UNCHANGED <<BackendVars, uiVars, indVars, hookVars>>
    \/ handleClose /\ UNCHANGED <<BackendVars, uiVars, indVars, hookVars>>

InitModal ==
    /\ ScoreIdle /\ DedupIdle /\ PipeIdle /\ CatIdle
    /\ CfgIdle /\ ExtractIdle /\ NewsIdle /\ ModalPageInit
    /\ ModalIdle /\ IndicatorIdle /\ HookIdle

SpecModal == InitModal /\ [][ModalNext]_vars

HookOthers == <<BackendVars, ui_filters, ui_sortBy, modalVars, indVars>>

HookNext ==
    \/ \E dataUrl \in DataUrls : RunEffect(dataUrl) /\ UNCHANGED HookOthers
    \/ \E k \in 1..Len(ue_fetches) : Settle(k) /\ UNCHANGED HookOthers

InitHook ==
    /\ ScoreIdle /\ DedupIdle /\ PipeIdle /\ CatIdle
    /\ CfgIdle /\ ExtractIdle /\ NewsIdle
    /\ ModalIdle /\ IndicatorIdle /\ HookInit

SpecHook == InitHook /\ [][HookNext]_vars

\* the effect runs after the render that follows a change of dataUrl, and a
\* fetch that is answered settles
SpecHookLive ==
    /\ SpecHook
    /\ \A k \in 1..MaxFetches :
          WF_vars(k <= Len(ue_fetches) /\ Settle(k) /\ UNCHANGED HookOthers)

----------------------------------------------------------------------------
(* C1: the score is the sum of the weights of the present weighted fields,
   hence within 0..100, and missing_fields is exactly the absent weighted
   fields in the weight table's declaration order. *)

\* the sub-sequence of the table's fields that satisfy P, in table order
RECURSIVE FieldsWhere(_, _)
FieldsWhere(P(_), i) ==
    IF i > Len(Weights) THEN <<>>
    ELSE IF P(Weights[i][1]) THEN <<Weights[i][1]>> \o FieldsWhere(P, i + 1)
         ELSE FieldsWhere(P, i + 1)

\* C1: once an event is scored, its score is the sum of the weights of its
\* present fields, lies within 0..100, and missing_fields lists exactly the
\* absent fields in table order
C1_ScoreIsWeightSum ==
    sc_out.done =>
        LET present == {i \in 1..Len(Weights) : has_field(sc_in, Weights[i][1])}
            absent(f) == ~has_field(sc_in, f)
            total == SeqSum([i \in 1..Len(Weights) |->
                               IF i \in present THEN Weights[i][2] ELSE 0])
        IN /\ sc_out.score = total
           /\ sc_out.score \in 0..100
           /\ sc_out.missing = FieldsWhere(absent, 1)

C1_Witness ==
    /\ sc_out.done
    /\ sc_out.score = 50
    /\ Len(sc_out.missing) = 4
    /\ has_field(sc_in, "title")
    /\ ~has_field(sc_in, "start_date")

----------------------------------------------------------------------------
(* C2: assembling a fragment yields "skip" exactly when an extractor raises
   on it (the fragment is no parseable document, or its date element has a
   datetime attribute that is no date) or title extraction returns the empty
   string and date extraction finds nothing; every other fragment is
   emitted as a candidate event. *)

TitleEmpty(f) == f.parseable /\ extract_title(f.nodes) = <<>>

DateNotFound(f) ==
    /\ f.parseable
    /\ ~extract_date(f.nodes).raised
    /\ extract_date(f.nodes).value = NoDate

\* the fragment's date element carries a datetime attribute that is no date
DatetimeAttrUnreadable(f) ==
    \E i \in 1..Len(f.nodes) :
        /\ f.nodes[i].tag \in {".date", ".event-date", "time"}
        /\ f.nodes[i].datetime # ""
        /\ TokenDate(f.nodes[i].datetime) = NoDate
        /\ \A j \in 1..(i - 1) :
              ~(\/ f.nodes[j].tag \in {".date", ".event-date"}
                \/ f.nodes[j].tag = "time" /\ f.nodes[j].datetime # "")

Emitted(i) ==
    /\ pl_state[i] = "ok"
    /\ \E k \in 1..Len(pl_scored) :
          /\ pl_scored[k].ev.source = pl_frags[i].source
          /\ pl_scored[k].ev.title = extract_title(pl_frags[i].frag.nodes)
          /\ pl_scored[k].ev.start_date = extract_date(pl_frags[i].frag.nodes).value

----------------------------------------------------------------------------
(* C3: a batch run processes every fragment: a fragment whose assembly
   fails or on which an extractor raises is counted as skipped, the others
   are still processed, the run does not abort, and at its end fragments
   seen = candidates assembled + candidates skipped = the batch's size. *)

\* C3: the run never aborts, a fragment left to process can always be
\* processed, seen = assembled + skipped, and a finished run has processed
\* every fragment of the batch
C3_BatchNeverAborts ==
    /\ pl_pc # "aborted"
    /\ pl_stats.fragments_seen
          = pl_stats.candidates_assembled + pl_stats.candidates_skipped
    /\ pl_stats.candidates_assembled
          = Cardinality({i \in 1..Len(pl_state) : pl_state[i] = "ok"})
    /\ pl_stats.candidates_skipped
          = Cardinality({i \in 1..Len(pl_state) : pl_state[i] = "skipped"})
    /\ (pl_pc = "assemble" /\ \E i \in 1..Len(pl_frags) : pl_state[i] = "todo") =>
          \E i \in 1..Len(pl_frags) :
              pl_state[i] \in {"todo", "busy"}
              /\ ENABLED (StartFragment(i) \/ FinishFragment(i))
    /\ pl_pc = "done" =>
          /\ pl_stats.fragments_seen = Len(pl_frags)
          /\ \A i \in 1..Len(pl_frags) : pl_state[i] \in {"ok", "skipped"}

\* a finished run of three fragments whose first finished fragment raised
\* and whose other two were assembled after it
C3_Witness ==
    /\ pl_pc = "done"
    /\ Len(pl_frags) = 3
    /\ pl_state[pl_order[1]] = "skipped"
    /\ \/ ~pl_frags[pl_order[1]].frag.parseable
       \/ DatetimeAttrUnreadable(pl_frags[pl_order[1]].frag)
    /\ pl_state[pl_order[2]] = "ok"
    /\ pl_state[pl_order[3]] = "ok"
    /\ pl_stats.candidates_assembled = 2
    /\ pl_stats.candidates_skipped = 1

----------------------------------------------------------------------------
(* C4: during a Deduplicator run every ScoredEvent placed so far is a member
   of exactly one cluster; an event that exceeds the threshold against no
   open cluster opens a new cluster holding only itself, an event that
   matches joins the matching cluster of highest combined score, the
   earliest-created one on a tie; finalization emits exactly one canonical
   event per cluster. *)

Memberships(k) ==
    {<<c, j>> \in (1..Len(clusters)) \X (1..Len(dd_batch)) :
        j <= Len(clusters[c].members) /\ clusters[c].members[j] = k}

C4_ExactlyOneCluster ==
    /\ \A k \in 1..Len(dd_batch) :
          Cardinality(Memberships(k)) = IF k < dd_idx THEN 1 ELSE 0
    /\ dd_phase = "finalized" =>
          /\ Len(canon) = Len(clusters)
          /\ \A c \in 1..Len(clusters) : canon[c].ev = clusters[c].rep.ev

C4_Placement ==
    (dd_phase = "clustering" /\ dd_idx' = dd_idx + 1) =>
        LET e == dd_batch[dd_idx].ev
            score(c) == Similarity(e, clusters[c].rep.ev)
            matching == {c \in 1..Len(clusters) : score(c) > MatchThreshold}
        IN IF matching = {}
           THEN /\ Len(clusters') = Len(clusters) + 1
                /\ clusters'[Len(clusters')].members = <<dd_idx>>
                /\ \A c \in 1..Len(clusters) : clusters'[c] = clusters[c]
           ELSE LET top == MaxOf({score(c) : c \in matching})
                    target == MinOf({c \in matching : score(c) = top})
                IN /\ Len(clusters') = Len(clusters)
                   /\ clusters'[target].members =
                         Append(clusters[target].members, dd_idx)
                   /\ \A c \in 1..Len(clusters) :
                         c # target => clusters'[c] = clusters[c]

\* C4: always every placed event is in exactly one cluster and a finalized
\* run has one canonical event per cluster, and every placement step opens a
\* new singleton cluster or joins the best match, the earliest on a tie
C4_EveryEventInOneCluster == [](C4_ExactlyOneCluster) /\ [][C4_Placement]_vars

\* an event tied between two clusters has joined the earlier one, and the
\* run has been finalized
C4_Witness ==
    /\ dd_phase = "finalized"
    /\ Len(clusters) = 2
    /\ Len(clusters[1].members) = 2
    /\ clusters[1].members[2] = 3
    /\ Similarity(dd_batch[3].ev, dd_batch[1].ev)
         = Similarity(dd_batch[3].ev, dd_batch[2].ev)

----------------------------------------------------------------------------
(* C5: the canonical record of a cluster scores at least as high as every
   member, and every weighted field present in some member is present in
   the canonical record. *)

\* C5: a cluster's canonical record scores at least as high as each member
\* and has every weighted field that some member has
C5_MergeMonotone ==
    \A c \in 1..Len(clusters) :
        \A j \in 1..Len(clusters[c].members) :
            LET m == dd_batch[clusters[c].members[j]]
                r == clusters[c].rep
            IN /\ r.completeness_score >= m.completeness_score
               /\ \A i \in 1..Len(Weights) :
                     has_field(m.ev, Weights[i][1]) => has_field(r.ev, Weights[i][1])
               /\ dd_phase = "finalized" =>
                     canon[c].completeness_score >= m.completeness_score

\* a finalized cluster whose most recently scraped member lacks a field an
\* older member has, and whose canonical record outscores every member
C5_Witness ==
    /\ dd_phase = "finalized"
    /\ \E c \in 1..Len(clusters) :
          /\ Len(clusters[c].members) >= 2
          /\ \A j \in 1..Len(clusters[c].members) :
                canon[c].completeness_score
                    > dd_batch[clusters[c].members[j]].completeness_score
          /\ \E j, k \in 1..Len(clusters[c].members) :
                LET old == dd_batch[clusters[c].members[j]].ev
                    new == dd_batch[clusters[c].members[k]].ev
                IN /\ old.source.scraped_at < new.source.scraped_at
                   /\ has_field(old, "organizer.name")
                   /\ ~has_field(new, "organizer.name")

----------------------------------------------------------------------------
(* C7: the Deduplicator run again on the same batch in the same order forms
   the same clusters and emits the same canonical events. *)

----------------------------------------------------------------------------
(* C8: a batch of two events from different sources with identical titles
   and start dates on consecutive calendar days ends in one cluster and
   yields exactly one canonical event. *)

ConsecutiveDayPair ==
    /\ Len(dd_batch) = 2
    /\ dd_batch[1].ev.source.id # dd_batch[2].ev.source.id
    /\ dd_batch[1].ev.title = dd_batch[2].ev.title
    /\ dd_batch[1].ev.start_date # NoDate
    /\ dd_batch[2].ev.start_date # NoDate
    /\ Abs(DayOf(dd_batch[1].ev.start_date) - DayOf(dd_batch[2].ev.start_date)) = 1

\* C8: two events of different sources with one title, dated on consecutive
\* days, end in one cluster and give one canonical event
C8_ConsecutiveDaysCluster ==
    (dd_phase = "finalized" /\ ConsecutiveDayPair) =>
        /\ Len(clusters) = 1
        /\ clusters[1].members = <<1, 2>>
        /\ Len(canon) = 1

\* the scenario of the specification: 2025-06-01 first, 2025-06-02 second
C8_Witness ==
    /\ dd_phase = "finalized"
    /\ ConsecutiveDayPair
    /\ dd_batch[1].ev.title = <<"Annual", "Conference">>
    /\ dd_batch[1].ev.start_date = TokenDate("2025-06-01")
    /\ dd_batch[2].ev.start_date = TokenDate("2025-06-02")
    /\ Len(canon) = 1

----------------------------------------------------------------------------
(* C6: when a run emits a canonical event whose fingerprint is that of a
   stored one, the stored record is replaced if the new score is higher and
   left as it is if the new score is lower; the score stored for a
   fingerprint never decreases. *)

EmittedFor(canonical, F) ==
    {canonical[i] : i \in {j \in 1..Len(canonical) : canonical[j].fingerprint = F}}

C6_Step ==
    (cat_runs' = cat_runs + 1) =>
        \A F \in DOMAIN catalog :
            LET old == catalog[F]
                new == EmittedFor(emitted', F)
            IN /\ F \in DOMAIN catalog'
               /\ catalog'[F].completeness_score >= old.completeness_score
               /\ (\A n \in new : n.completeness_score < old.completeness_score)
                     => catalog'[F] = old
               /\ (\E n \in new : n.completeness_score > old.completeness_score)
                     => /\ catalog'[F] \in new
                        /\ \A n \in new : catalog'[F].completeness_score
                                             >= n.completeness_score

\* C6: every run leaves each stored fingerprint with a score no lower than
\* before, keeps the stored record against lower-scoring newcomers and
\* replaces it by the best higher-scoring one
C6_ScoreMonotoneSupersession == [][C6_Step]_vars

\* a run has emitted one canonical event scoring lower than the record
\* stored for its fingerprint, and the stored record is still there
C6_Witness ==
    /\ cat_runs >= 2
    /\ Len(emitted) = 1
    /\ emitted[1].fingerprint \in DOMAIN catalog
    /\ emitted[1].completeness_score
          < catalog[emitted[1].fingerprint].completeness_score

----------------------------------------------------------------------------
(* C9: the identifier of a canonical event depends only on its source URL
   and its start date: canonical events of any two runs with the same
   source URL and the same start date carry the same identifier, whatever
   their titles and other fields. *)

CanonSeen == {catalog[F] : F \in DOMAIN catalog} \cup SeqRange(emitted)

----------------------------------------------------------------------------
(* C10: in whatever order the fragments are assembled and scored, the
   Deduplicator runs once and starts clustering only after every fragment
   has been assembled-and-scored or skipped: no cluster is opened or
   changed while a fragment is unprocessed, and a cluster is changed only
   by the single placement step of the Deduplicator. *)

AllProcessed == \A i \in 1..Len(pl_frags) : pl_state[i] \in {"ok", "skipped"}

C10_Barrier ==
    /\ dd_run <= 1
    /\ (dd_phase # "idle" \/ clusters # <<>>) =>
          /\ AllProcessed
          /\ dd_run = 1
          /\ dd_batch = pl_scored
          /\ Len(dd_batch) = pl_stats.candidates_assembled

C10_ClusterStep ==
    (clusters' # clusters) =>
        /\ AllProcessed
        /\ pl_state' = pl_state /\ pl_scored' = pl_scored
        /\ dd_batch' = dd_batch
        /\ dd_idx' = dd_idx + 1
        /\ \A c \in 1..Len(clusters) :
              clusters'[c] # clusters[c] =>
                 clusters'[c].members = Append(clusters[c].members, dd_idx)

\* C10: always the Deduplicator has run at most once and only on the full
\* batch after every fragment was processed, and every change of a cluster
\* is the single placement of the batch's next event
C10_DedupAfterBarrier == [](C10_Barrier) /\ [][C10_ClusterStep]_vars

\* a finished run whose three fragments were finished out of batch order
\* and whose events the Deduplicator clustered afterwards
C10_Witness ==
    /\ pl_pc = "done"
    /\ Len(pl_frags) = 3
    /\ pl_order[1] = 3
    /\ pl_order[3] = 1
    /\ dd_run = 1
    /\ Len(dd_batch) >= 2
    /\ Len(clusters) >= 1

----------------------------------------------------------------------------
(* C12: a machine-readable date attribute on a date-labeled sub-element
   gives the extracted date, whatever text the element or the rest of the
   fragment contains. *)

\* a sub-element the date selectors answer to
DateLabeled(node) ==
    \/ node.tag \in {".date", ".event-date"}
    \/ node.tag = "time" /\ node.datetime # ""

\* the index of the first date-labeled node, 0 when there is none
FirstDateLabeled(nodes) ==
    IF \E i \in 1..Len(nodes) : DateLabeled(nodes[i])
    THEN MinOf({i \in 1..Len(nodes) : DateLabeled(nodes[i])})
    ELSE 0

HasReadableAttr(node) ==
    DateLabeled(node) /\ node.datetime # "" /\ TokenDate(node.datetime) # NoDate

\* C12 as the specification words it: a fragment with some date-labeled
\* sub-element carrying a readable date attribute (and none carrying an
\* unreadable one) resolves to the date of such an attribute
C12_AttributeAlwaysWins ==
    (/\ ex_out.done
     /\ \E i \in 1..Len(ex_nodes) : HasReadableAttr(ex_nodes[i])
     /\ \A i \in 1..Len(ex_nodes) :
           (DateLabeled(ex_nodes[i]) /\ ex_nodes[i].datetime # "")
              => HasReadableAttr(ex_nodes[i])) =>
        /\ ~ex_out.date.raised
        /\ \E i \in 1..Len(ex_nodes) :
              /\ HasReadableAttr(ex_nodes[i])
              /\ ex_out.date.value = TokenDate(ex_nodes[i].datetime)

\* C12: when the first date-labeled sub-element, in document order, carries
\* a readable date attribute, the extracted date is the date of that
\* attribute and nothing else was parsed
C12_FirstDateElementAttribute ==
    (ex_out.done /\ FirstDateLabeled(ex_nodes) # 0
       /\ HasReadableAttr(ex_nodes[FirstDateLabeled(ex_nodes)])) =>
        /\ ex_out.date = Returned(TokenDate(ex_nodes[FirstDateLabeled(ex_nodes)].datetime))
        /\ ex_out.date_stages = <<[stage |-> "direct", on |-> "attribute"]>>

\* a fragment whose date element has an attribute and a text that denote
\* different instants, beside free text that denotes a third date: the
\* attribute's instant was returned
C12_Witness ==
    /\ ex_out.done
    /\ Len(ex_nodes) = 2
    /\ ~DateLabeled(ex_nodes[1])
    /\ ~date_parse_fuzzy(ex_nodes[1].text).raised
    /\ HasReadableAttr(ex_nodes[2])
    /\ ~date_parse_fuzzy(ex_nodes[2].text).raised
    /\ date_parse_fuzzy(ex_nodes[2].text).value # TokenDate(ex_nodes[2].datetime)
    /\ date_parse_fuzzy(ex_nodes[1].text).value # TokenDate(ex_nodes[2].datetime)
    /\ ex_out.date = Returned(TokenDate(ex_nodes[2].datetime))

----------------------------------------------------------------------------
(* C13: date extraction tries its stages in a fixed order, the first stage
   that succeeds gives the result and no later stage is attempted; when
   every stage fails the result is "not found". *)

\* the value a lenient parse of the text gives, NoDate when it fails
LenientDate(text) ==
    IF date_parse_fuzzy(text).raised THEN NoDate ELSE date_parse_fuzzy(text).value

\* the four stages as the specification lists them: (a) the attribute of
\* the date-labeled element, (b) a lenient parse of its text, (c) a lenient
\* parse of the whole fragment text, (d) the patterns over the whole text
StagedDate(nodes) ==
    LET e == FirstDateLabeled(nodes)
        a == IF e # 0 /\ nodes[e].datetime # "" THEN TokenDate(nodes[e].datetime)
             ELSE NoDate
        b == IF e # 0 THEN LenientDate(nodes[e].text) ELSE NoDate
        c == LenientDate(get_text(nodes))
        d == date_by_patterns(get_text(nodes))
    IN IF a # NoDate THEN a ELSE IF b # NoDate THEN b ELSE IF c # NoDate THEN c ELSE d

StageResult(s, nodes) ==
    LET e == FirstDateLabeled(nodes)
        text == IF s.on = "element" THEN nodes[e].text ELSE get_text(nodes)
    IN CASE s.stage = "direct" -> date_parse(nodes[e].datetime)
         [] s.stage = "lenient" -> date_parse_fuzzy(text)
         [] s.stage = "patterns" ->
               IF date_by_patterns(text) = NoDate THEN Raised(NoDate)
               ELSE Returned(date_by_patterns(text))

----------------------------------------------------------------------------
(* C14: format detection returns hybrid if a hybrid keyword occurs in the
   lower-cased text, otherwise online if an online keyword occurs, otherwise
   in-person if an in-person keyword occurs, otherwise in-person if a
   location-like sub-element exists, otherwise online. *)

\* a keyword of the category occurs in the fragment's text
KeywordOccurs(nodes, category) ==
    \E i \in 1..Len(nodes) : \E j \in 1..Len(nodes[i].text) :
        category \in TokenKeywords(nodes[i].text[j])

HasLocationElement(nodes) ==
    \E i \in 1..Len(nodes) : nodes[i].tag \in {".location", ".venue", ".address"}

\* C14: the detected format follows the priority hybrid, online, in-person
\* keyword, location element, default online; a text with both an online
\* and a hybrid keyword is hybrid
C14_FormatPriority ==
    ex_out.done =>
        /\ KeywordOccurs(ex_nodes, "hybrid") => ex_out.format = "hybrid"
        /\ (~KeywordOccurs(ex_nodes, "hybrid") /\ KeywordOccurs(ex_nodes, "online"))
              => ex_out.format = "online"
        /\ (/\ ~KeywordOccurs(ex_nodes, "hybrid")
            /\ ~KeywordOccurs(ex_nodes, "online")
            /\ KeywordOccurs(ex_nodes, "in-person")) => ex_out.format = "in-person"
        /\ (/\ \A c \in {"hybrid", "online", "in-person"} : ~KeywordOccurs(ex_nodes, c)
            /\ HasLocationElement(ex_nodes)) => ex_out.format = "in-person"
        /\ (/\ \A c \in {"hybrid", "online", "in-person"} : ~KeywordOccurs(ex_nodes, c)
            /\ ~HasLocationElement(ex_nodes)) => ex_out.format = "online"

\* a fragment whose text holds "Zoom" and "Hybrid", and an in-person keyword
\* too, was classified hybrid
C14_Witness ==
    /\ ex_out.done
    /\ KeywordOccurs(ex_nodes, "hybrid")
    /\ KeywordOccurs(ex_nodes, "online")
    /\ KeywordOccurs(ex_nodes, "in-person")
    /\ \E i \in 1..Len(ex_nodes) : \E j \in 1..Len(ex_nodes[i].text) :
          ex_nodes[i].text[j] = "Zoom"
    /\ ex_out.format = "hybrid"

----------------------------------------------------------------------------
(* C15: a fragment that yields only a title and a start date, with no format
   keyword and no location element, is emitted with format online, score 50
   and missing_fields [event_type, description, location, organizer.name,
   registration.url]. *)

\* the extractors found a title and a date and nothing else, and nothing in
\* the fragment indicates a format
OnlyTitleAndDate ==
    /\ ex_out.title # <<>>
    /\ ~ex_out.date.raised /\ ex_out.date.value # NoDate
    /\ ex_out.description = <<>>
    /\ ex_out.location = NoLocation
    /\ ex_out.registration = NoRegistration
    /\ \A c \in {"hybrid", "online", "in-person"} : ~KeywordOccurs(ex_nodes, c)
    /\ ~HasLocationElement(ex_nodes)

\* C15: such a fragment is emitted as an event of format online that scores
\* 50 and misses the five other weighted fields, in table order
C15_TitleAndDateOnly ==
    (ex_out.done /\ OnlyTitleAndDate) =>
        /\ ex_out.result.outcome = "event"
        /\ ex_out.result.event.title = ex_out.title
        /\ ex_out.result.event.start_date = ex_out.date.value
        /\ ex_out.result.event.format = "online"
        /\ ex_out.scored.completeness_score = 50
        /\ ex_out.scored.missing_fields =
              <<"event_type", "description", "location", "organizer.name",
                "registration.url">>

\* the scenario of the specification: a heading and a date element with a
\* datetime attribute
C15_Witness ==
    /\ ex_out.done
    /\ OnlyTitleAndDate
    /\ Len(ex_nodes) = 2
    /\ ex_nodes[1].tag = "h2"
    /\ ex_nodes[2].tag = ".date" /\ ex_nodes[2].datetime # ""
    /\ ex_out.result.event.start_date = TokenDate(ex_nodes[2].datetime)
    /\ ex_out.scored.completeness_score = 50

----------------------------------------------------------------------------
(* C16: in a cluster's canonical record every field value is the value of
   that field in one single member, and when several members have the field
   present it comes from the member scraped most recently. *)

\* C16: for every cluster and weighted field, the canonical value is the
\* value some member has; when members have the field present it is the
\* value of one of them than which none of them was scraped later
C16_FieldsFromOneMember ==
    \A c \in 1..Len(clusters) : \A i \in 1..Len(Weights) :
        LET f == Weights[i][1]
            M == MemberEvents(dd_batch, clusters[c].members)
            having == {j \in 1..Len(M) : has_field(M[j], f)}
            value == FieldValue(clusters[c].rep.ev, f)
        IN /\ \E j \in 1..Len(M) : value = FieldValue(M[j], f)
           /\ having # {} =>
                 \E j \in having :
                     /\ value = FieldValue(M[j], f)
                     /\ \A k \in having :
                           M[k].source.scraped_at <= M[j].source.scraped_at
           /\ dd_phase = "finalized" => FieldValue(canon[c].ev, f) = value

\* a finalized cluster whose first member and a later, more recently scraped
\* member both have a title and a start date, with different values: the
\* canonical record carries those of the later one
C16_Witness ==
    /\ dd_phase = "finalized"
    /\ \E c \in 1..Len(clusters) :
          LET M == MemberEvents(dd_batch, clusters[c].members)
          IN /\ Len(M) >= 2
             /\ \E j \in 2..Len(M) :
                   /\ M[1].source.scraped_at < M[j].source.scraped_at
                   /\ M[1].title # <<>> /\ M[j].title # <<>>
                   /\ M[1].title # M[j].title
                   /\ M[1].start_date # NoDate /\ M[j].start_date # NoDate
                   /\ M[1].start_date # M[j].start_date
                   /\ canon[c].ev.title = M[j].title
                   /\ canon[c].ev.start_date = M[j].start_date

----------------------------------------------------------------------------
(* C17: title extraction always returns a string: the text of the first
   structural selector, in the fixed order, whose element has non-blank
   text, otherwise the capped start of the fragment's flattened text; the
   empty string only when the fragment has no text at all. *)

\* the stripped text of the first node the selector answers to, <<>> when
\* there is no such node
SelectorText(nodes, sel) ==
    LET at == {i \in 1..Len(nodes) : nodes[i].tag = sel}
    IN IF at = {} THEN <<>> ELSE Strip(nodes[MinOf(at)].text)

\* the first k tokens of a text
Prefix(text, k) == [i \in 1..(IF Len(text) < k THEN Len(text) ELSE k) |-> text[i]]

\* C17: the title is the text of the first selector of the list whose
\* element has non-blank text; without one it is the start of the
\* flattened text, of at most TitleCap tokens; it is empty exactly when no
\* node of the fragment has text other than whitespace
C17_TitleNeverNull ==
    ex_out.done =>
        LET good == {k \in 1..Len(TitleSelectors) :
                        SelectorText(ex_nodes, TitleSelectors[k]) # <<>>}
        IN /\ ex_out.title \in Seq(UNION {SeqRange(ex_nodes[i].text) :
                                             i \in 1..Len(ex_nodes)})
           /\ good # {} =>
                 ex_out.title = SelectorText(ex_nodes, TitleSelectors[MinOf(good)])
           /\ good = {} =>
                 /\ ex_out.title = Prefix(get_text_strip(ex_nodes), TitleCap)
                 /\ Len(ex_out.title) <= TitleCap
           /\ ex_out.title = <<>> <=>
                 \A i \in 1..Len(ex_nodes) : Strip(ex_nodes[i].text) = <<>>

\* a fragment whose heading is blank and whose link has a text: the link's
\* text is the title
C17_Witness ==
    /\ ex_out.done
    /\ Len(ex_nodes) = 2
    /\ ex_nodes[1].tag = "h2" /\ Strip(ex_nodes[1].text) = <<>>
    /\ ex_nodes[2].tag = "a" /\ Strip(ex_nodes[2].text) # <<>>
    /\ ex_out.title = Strip(ex_nodes[2].text)

----------------------------------------------------------------------------
(* C19: the registration fee is the match of the first fee pattern, in the
   list's order, that matches anywhere in the fragment text, even when a
   later pattern matches earlier in the text; no fee when none matches. *)

\* the positions of the fragment text a fee pattern matches at
FeeHits(nodes) ==
    {i \in 1..Len(get_text(nodes)) : FeePatternOf(get_text(nodes)[i]) # 0}

\* C19: the fee is the first match in the text of the lowest-numbered
\* pattern that matches anywhere; it is empty exactly when no pattern
\* matches
C19_FirstFeePatternWins ==
    ex_out.done =>
        LET text == get_text(ex_nodes)
            hits == FeeHits(ex_nodes)
        IN /\ hits = {} <=> ex_out.registration.fee = ""
           /\ hits # {} =>
                 LET first == MinOf({FeePatternOf(text[i]) : i \in hits})
                     at == MinOf({i \in hits : FeePatternOf(text[i]) = first})
                 IN /\ ex_out.registration.fee = text[at]
                    /\ \A i \in hits :
                          FeePatternOf(text[i]) >= FeePatternOf(ex_out.registration.fee)

\* a text in which "Free" comes before a currency amount: the amount is the
\* fee
C19_Witness ==
    /\ ex_out.done
    /\ \E i, j \in FeeHits(ex_nodes) :
          /\ i < j
          /\ FeePatternOf(get_text(ex_nodes)[i]) = 4
          /\ FeePatternOf(get_text(ex_nodes)[j]) = 1
          /\ ex_out.registration.fee = get_text(ex_nodes)[j]

----------------------------------------------------------------------------
(* C18: newsletter segmentation uses list-item / table-row blocks only when
   the body has no block class-marked as event-like, and hands a candidate
   block to the assembler only if its text passes the date-indicator scan;
   every event extracted comes from a block with a date indicator. *)

HasIndicator(block) ==
    \E i \in 1..Len(block.nodes) : \E j \in 1..Len(block.nodes[i].text) :
        DateIndicator(block.nodes[i].text[j])

EventMarked(block) == block.cls \in {"event", "event-card", "upcoming-events"}

\* C18: the candidates are the event-marked blocks, or the list items and
\* table rows when no block is event-marked; the blocks handed to the
\* assembler are the candidates with a date indicator, in document order;
\* every extracted event comes from a handed block
C18_OnlyDatedBlocksAssembled ==
    nl_out.done =>
        LET marked == {b \in 1..Len(nl_body) : EventMarked(nl_body[b])}
            generic == {b \in 1..Len(nl_body) : nl_body[b].cls \in {"li", "tr"}}
            candidates == IF marked # {} THEN marked ELSE generic
        IN /\ SeqRange(nl_out.sections) = candidates
           /\ SeqRange(nl_out.handed) = {b \in candidates : HasIndicator(nl_body[b])}
           /\ \A b \in 1..Len(nl_body) :
                 ~HasIndicator(nl_body[b]) => b \notin SeqRange(nl_out.handed)
           /\ \A k \in 1..Len(nl_out.events) :
                 /\ nl_out.events[k].block \in SeqRange(nl_out.handed)
                 /\ HasIndicator(nl_body[nl_out.events[k].block])
           /\ \A k \in 1..(Len(nl_out.handed) - 1) :
                 nl_out.handed[k] < nl_out.handed[k + 1]

\* a body with an event-marked block without a date indicator, one with an
\* indicator and a dated list item: only the second was handed to the
\* assembler and gave the one event
C18_Witness ==
    /\ nl_out.done
    /\ Len(nl_body) = 3
    /\ EventMarked(nl_body[1]) /\ ~HasIndicator(nl_body[1])
    /\ EventMarked(nl_body[2]) /\ HasIndicator(nl_body[2])
    /\ nl_body[3].cls = "li" /\ HasIndicator(nl_body[3])
    /\ nl_out.handed = <<2>>
    /\ Len(nl_out.events) = 1
    /\ nl_out.events[1].block = 2

----------------------------------------------------------------------------
(* C11: when the weight table the run is started with does not sum to 100,
   the run ends at initialization with a configuration error and no fragment
   is processed: none is taken, assembled, scored or skipped, the statistics
   stay at zero and the Deduplicator is never started. *)

NothingProcessed ==
    /\ \A i \in 1..Len(pl_state) : pl_state[i] = "todo"
    /\ pl_order = <<>> /\ pl_scored = <<>> /\ pl_stats = NoStats
    /\ dd_phase = "idle" /\ dd_batch = <<>> /\ clusters = <<>> /\ canon = <<>>

\* C11: a run started with a weight table that does not sum to 100 is either
\* still at initialization or has ended with the configuration error, and
\* nothing of its batch has been processed.
C11_ConfigErrorBeforeAnyFragment ==
    (pl_pc # "idle" /\ WeightSum(cfg_weights) # 100) =>
        /\ pl_pc \in {"init", "config_error"}
        /\ NothingProcessed

C11_Witness ==
    /\ pl_pc = "config_error"
    /\ WeightSum(cfg_weights) = 90
    /\ Len(pl_frags) = MaxBatch
    /\ NothingProcessed

----------------------------------------------------------------------------
(* C20: the displayed list is exactly the loaded events that satisfy every
   active filter at once; an empty filter restricts nothing; the displayed
   count never exceeds the total count. *)

Occurrences(list, x) == Cardinality({i \in 1..Len(list) : list[i] = x})

\* the same events the same number of times, in whatever order
SameEvents(s, t) ==
    \A x \in SeqRange(s) \cup SeqRange(t) : Occurrences(s, x) = Occurrences(t, x)

\* the start of the event lies on a day of the chosen range
InDateRange(e) ==
    /\ ui_filters.startDate # "" =>
          /\ e.start_date # ""
          /\ DayOf(NewDate(e.start_date)) >= DayOf(NewDate(ui_filters.startDate))
    /\ ui_filters.endDate # "" =>
          /\ e.start_date # ""
          /\ DayOf(NewDate(e.start_date)) <= DayOf(NewDate(ui_filters.endDate))

SatisfiesFilters(e) ==
    /\ ui_filters.search # <<>> =>
          \E text \in {e.title, e.description, e.organizer.name} :
             includes(toLowerCase(text), toLowerCase(ui_filters.search))
    /\ ui_filters.format # <<>> => e.format \in SeqRange(ui_filters.format)
    /\ ui_filters.eventType # <<>> =>
          e.event_type \in SeqRange(ui_filters.eventType)
    /\ ui_filters.organization # <<>> =>
          e.organizer.name = ui_filters.organization
    /\ InDateRange(e)

\* C20: the displayed list holds exactly the loaded events that satisfy every
\* active filter (search, format, event type, organization, date range), and
\* the displayed count is at most the total count.
C20_DisplayedSatisfyEveryFilter ==
    /\ SameEvents(Displayed, SelectSeq(ui_events, SatisfiesFilters))
    /\ eventCount <= totalCount

----------------------------------------------------------------------------
(* C26: the format and eventType selections never hold a value twice; one
   toggle changes the membership of the toggled value in its own list and
   nothing else of the filters; a second toggle of the same value restores
   the selection set. *)

NoDuplicates(arr) == \A i, j \in 1..Len(arr) : arr[i] = arr[j] => i = j

\* the selection set after a toggle of v: v has changed sides, no other value
ToggledSet(before, after, v) ==
    /\ (v \in after) # (v \in before)
    /\ after \ {v} = before \ {v}

OtherFieldsKept(field) ==
    \A g \in (DOMAIN ui_filters) \ {field} : ui_filters'[g] = ui_filters[g]

C26_ToggleStep ==
    /\ \A format \in FormatInputs :
          toggleFormat(format) =>
             /\ ToggledSet(SeqRange(ui_filters.format),
                           SeqRange(ui_filters'.format), format)
             /\ OtherFieldsKept("format")
             /\ SeqRange(Toggled(ui_filters'.format, format))
                  = SeqRange(ui_filters.format)
    /\ \A type \in TypeInputs :
          toggleEventType(type) =>
             /\ ToggledSet(SeqRange(ui_filters.eventType),
                           SeqRange(ui_filters'.eventType), type)
             /\ OtherFieldsKept("eventType")
             /\ SeqRange(Toggled(ui_filters'.eventType, type))
                  = SeqRange(ui_filters.eventType)

\* C26: after any sequence of toggles the two lists hold no duplicate; a
\* toggle flips the membership of exactly its value in its own list, leaves
\* the other filter fields alone, and toggled again gives the set back.
C26_TogglesKeepSets ==
    /\ [](NoDuplicates(ui_filters.format) /\ NoDuplicates(ui_filters.eventType))
    /\ [][C26_ToggleStep]_vars

\* both formats selected, the first one toggled off and on again in between,
\* and an event type selected beside them
C26_Witness ==
    /\ ui_filters.format = <<FORMAT_OPTIONS[3], FORMAT_OPTIONS[1]>>
    /\ Len(ui_filters.eventType) = 1
    /\ ui_filters.search # <<>>

----------------------------------------------------------------------------
(* C27: clearFilters puts the six filter fields back to their initial empty
   values; then no filter is reported active and the displayed list holds
   every loaded event exactly once; the sort option and the loaded events
   are as before. *)

C27_ClearStep ==
    clearFilters =>
       /\ ui_filters' = NoFilters
       /\ ui_sortBy' = ui_sortBy
       /\ ui_events' = ui_events

\* what the page shows whenever the filters have their initial values, as
\* they have after clearFilters
C27_Cleared ==
    ui_filters = NoFilters =>
       /\ ~hasActiveFilters
       /\ SameEvents(Displayed, ui_events)
       /\ eventCount = totalCount

\* C27: from any filter state, a clearFilters step ends with the initial
\* filters and with the sort option and the loaded events unchanged; with
\* the initial filters no filter is reported active and every loaded event
\* is displayed exactly once.
C27_ClearFiltersShowsAll == [][C27_ClearStep]_vars /\ []C27_Cleared

\* a state clearFilters acts on: every kind of filter set, a sort option
\* other than the initial one, and loaded events that are not displayed
C27_Witness ==
    /\ ui_filters.search # <<>> /\ Len(ui_filters.format) > 0
    /\ Len(ui_filters.eventType) > 0 /\ ui_filters.organization # <<>>
    /\ ui_filters.startDate # "" /\ ui_filters.endDate # ""
    /\ ui_sortBy = "completeness"
    /\ eventCount < totalCount
    /\ ENABLED clearFilters

----------------------------------------------------------------------------
(* C29: with a From Date and a To Date selected the displayed events are the
   loaded events whose start falls on a calendar day from the From day to
   the To day inclusive, at whatever time of day; an event with no
   start_date is hidden while either date filter is set. *)

OnlyDateFilters ==
    /\ ui_filters.search = <<>> /\ ui_filters.format = <<>>
    /\ ui_filters.eventType = <<>> /\ ui_filters.organization = <<>>

\* the event has a start_date and it falls on a day from the From day to the
\* To day
OnChosenDays(e) ==
    /\ e.start_date # ""
    /\ DayOf(NewDate(e.start_date)) >= DayOf(NewDate(ui_filters.startDate))
    /\ DayOf(NewDate(e.start_date)) <= DayOf(NewDate(ui_filters.endDate))

\* C29: with both dates selected (and no other filter) the displayed events
\* are exactly the loaded events that start on a day from the From day to
\* the To day inclusive; while either date filter is set no displayed event
\* lacks a start_date.
C29_WholeDaysInclusive ==
    /\ (ui_filters.startDate # "" /\ ui_filters.endDate # "" /\ OnlyDateFilters)
          => SameEvents(Displayed, SelectSeq(ui_events, OnChosenDays))
    /\ (ui_filters.startDate # "" \/ ui_filters.endDate # "")
          => \A i \in 1..Len(Displayed) : Displayed[i].start_date # ""

----------------------------------------------------------------------------
(* C30: sorting only reorders the filtered events.  By date they are in
   non-decreasing start_date order, the events without a start_date after
   all the others; by completeness they are in non-increasing score order, a
   missing score counting as 0; a change of the sort option neither adds
   nor removes a displayed event. *)

\* the filtered events as they come before result.sort puts them in order
Unsorted == filteredEvents(ui_events, ui_filters, "unsorted")

SortedByDate(list) ==
    \A i, j \in 1..Len(list) :
       i < j =>
          /\ list[i].start_date = "" => list[j].start_date = ""
          /\ (list[i].start_date # "" /\ list[j].start_date # "") =>
                NewDate(list[i].start_date) <= NewDate(list[j].start_date)

SortedByCompleteness(list) ==
    \A i, j \in 1..Len(list) :
       i < j =>
          (IF list[i].completeness_score = MissingScore
           THEN 0 ELSE list[i].completeness_score)
          >= (IF list[j].completeness_score = MissingScore
              THEN 0 ELSE list[j].completeness_score)

C30_SortStep ==
    \A value \in SortOptions :
       SetSortBy(value) => ui_events' = ui_events /\ ui_filters' = ui_filters

C30_Sorted ==
    /\ \A option \in SortOptions :
          SameEvents(filteredEvents(ui_events, ui_filters, option), Unsorted)
    /\ ui_sortBy = "date" => SortedByDate(Displayed)
    /\ ui_sortBy = "completeness" => SortedByCompleteness(Displayed)

\* C30: under every sort option the displayed events are the filtered events,
\* each as often as before; sorted by date they are in non-decreasing
\* start_date order with the events lacking a start_date last; sorted by
\* completeness they are in non-increasing score order, no score counting as
\* 0; a change of the sort option changes neither the events nor the filters.
C30_SortOnlyReorders == []C30_Sorted /\ [][C30_SortStep]_vars

\* two events displayed that were loaded in the other order: by date, the
\* one without a start_date moved behind a dated one; by completeness, the
\* one without a score behind a scored one
C30_Witness ==
    /\ Len(Displayed) = MaxUiEvents
    /\ Displayed # Unsorted
    /\ \/ /\ ui_sortBy = "date"
          /\ Unsorted[1].start_date = ""
          /\ Displayed[1].start_date # ""
       \/ /\ ui_sortBy = "completeness"
          /\ Unsorted[1].completeness_score = MissingScore
          /\ Displayed[1].completeness_score > 0

----------------------------------------------------------------------------
(* C21: the indicator puts a score in exactly one band, 'Complete' (high)
   from 80, 'Partial' (medium) from 50 to 79, 'Incomplete' (low) below 50;
   the missing fields are shown only while the indicator is hovered and the
   list is not empty. *)

\* C21: the band of the score is Complete/high exactly when the score is 80
\* or more, Partial/medium exactly when it is 50 to 79, Incomplete/low
\* exactly when it is below 50; the tooltip with the missing fields is shown
\* exactly while the pointer is over the indicator and the list is non-empty.
C21_BandsAndTooltip ==
    LET band == ScoreBand(ci_score)
    IN /\ band \in {[label |-> "Complete", colorClass |-> "completeness-high"],
                    [label |-> "Partial", colorClass |-> "completeness-medium"],
                    [label |-> "Incomplete", colorClass |-> "completeness-low"]}
       /\ band.label = "Complete" <=> ci_score >= 80
       /\ band.label = "Partial" <=> (ci_score >= 50 /\ ci_score <= 79)
       /\ band.label = "Incomplete" <=> ci_score < 50
       /\ TooltipShown <=> (ci_hovered /\ ci_missing # <<>>)

\* a score on the edge of the upper band, hovered, its missing fields shown
C21_Witness ==
    /\ ci_score = 80
    /\ ScoreBand(ci_score).label = "Complete"
    /\ ci_hovered /\ TooltipShown

----------------------------------------------------------------------------
(* C23: the Submit Event modal never changes the loaded events, the filters
   or the sort option and sends nothing to the catalog; Generate Submission
   only switches the modal from the form to the generated JSON. *)

ModalStep ==
    \/ OpenModal \/ handleSubmit \/ handleCopy \/ BackToEdit \/ handleClose
    \/ \E name \in DOMAIN FormValues : \E value \in FormValues[name] :
          handleChange(name, value)

C23_Step ==
    /\ ModalStep =>
          /\ ui_events' = ui_events
          /\ ui_filters' = ui_filters
          /\ ui_sortBy' = ui_sortBy
          /\ catalog' = catalog /\ emitted' = emitted
    /\ handleSubmit =>
          /\ ~md_submitted /\ md_submitted'
          /\ md_form' = md_form
          /\ md_open' = md_open
          /\ md_clipboard' = md_clipboard

\* C23: every step of the modal (open, edit, Generate Submission, Copy JSON,
\* Back to Edit, close) leaves the loaded events, the filters, the sort
\* option and the catalog as they were; Generate Submission turns submitted
\* from false to true and changes nothing else of the modal.
C23_ModalChangesNothingElse == [][C23_Step]_vars

\* the generated JSON on view and copied, over a page with events loaded and
\* a search typed in
C23_Witness ==
    /\ md_open /\ md_submitted /\ md_clipboard.written
    /\ md_clipboard.text = generateJson(md_form)
    /\ ui_events # <<>> /\ ui_filters.search # <<>>

----------------------------------------------------------------------------
(* C28: whenever the modal is closed its form holds the initial values and
   submitted is false, so it reopens with the empty form; Back to Edit
   returns to the form with the entered values kept. *)

C28_BackStep ==
    BackToEdit => (md_open' /\ ~md_submitted' /\ md_form' = md_form)

\* C28: while the modal is closed formData has its initial values and
\* submitted is false; a Back to Edit step shows the form again with
\* formData unchanged.
C28_ClosedModalIsReset ==
    /\ [](~md_open => (md_form = InitialForm /\ ~md_submitted))
    /\ [][C28_BackStep]_vars

\* the modal closed after a submission was generated and copied
C28_Witness ==
    /\ ~md_open /\ md_clipboard.written
    /\ md_clipboard.text.organizer.name # ""
    /\ md_form = InitialForm /\ ~md_submitted

----------------------------------------------------------------------------
(* C25: if dataUrl changes while an earlier fetch is in flight, then once
   all fetches have settled the state of the hook reflects the response for
   the latest dataUrl, in whatever order the responses arrive. *)

AllSettled ==
    /\ ue_fetches # <<>>
    /\ \A k \in 1..Len(ue_fetches) : ~ue_fetches[k].pending

\* the state a fetch that got response r leaves behind
Reflects(r) ==
    /\ ~ue_loading
    /\ ue_error = ErrorMessage(r)
    /\ ui_events = (IF r.outcome \in {"array", "wrapped"} THEN r.events ELSE <<>>)
    /\ r.last_updated # Null => ue_lastUpdated = r.last_updated

\* C25: once every fetch has settled, events, error, lastUpdated and loading
\* are those of the response for the latest dataUrl.
C25_LatestUrlWins == AllSettled => Reflects(ue_server[ue_url])

----------------------------------------------------------------------------
(* C24: a failed fetch (status not OK, network error, unparsable body) ends
   with error set to the failure message and events empty; a fetch that
   succeeds ends with error null and events the array body, the events list
   of the body, or empty for any other body; after a single fetch, once
   loading is false, an error implies that events is empty. *)

SingleFetchSettled == Len(ue_fetches) = 1 /\ ~ue_fetches[1].pending

FetchFailed(r) == r.outcome \in {"network_error", "not_ok", "invalid_json"}

\* C24: after a single fetch has settled: if it failed, error is the failure
\* message and events is empty; otherwise error is null and events is the
\* array body, the events list of a wrapped body, or empty for any other
\* body; and a non-null error implies that events is empty.
C24_ErrorImpliesNoEvents ==
    SingleFetchSettled =>
       LET r == ue_server[ue_fetches[1].url]
       IN /\ FetchFailed(r) => (ue_error # Null /\ ui_events = <<>>)
          /\ ~FetchFailed(r) =>
                /\ ue_error = Null
                /\ ui_events =
                      (IF r.outcome \in {"array", "wrapped"} THEN r.events ELSE <<>>)
          /\ (~ue_loading /\ ue_error # Null) => ui_events = <<>>

----------------------------------------------------------------------------
(* C22: useEvents starts a fetch of dataUrl when it mounts and whenever
   dataUrl changes; loading is true while that fetch is pending, and for
   every outcome of the fetch loading becomes false once it has settled. *)

\* a change of dataUrl starts a fetch of the new dataUrl
C22_StartStep ==
    ue_url' # ue_url =>
       /\ Len(ue_fetches') = Len(ue_fetches) + 1
       /\ ue_fetches'[Len(ue_fetches')] = [url |-> ue_url', pending |-> TRUE]

\* the fetch of the current dataUrl is the last one started
LatestPending == ue_fetches # <<>> /\ ue_fetches[Len(ue_fetches)].pending

\* C22: every change of dataUrl (the mount included) starts a fetch of it;
\* loading is true while the fetch of the current dataUrl is pending; and
\* whenever fetches have been started loading is eventually false.
C22_LoadingFollowsFetch ==
    /\ [][C22_StartStep]_vars
    /\ [](LatestPending => ue_loading)
    /\ [](ue_fetches # <<>> => <>(~ue_loading))

============================================================================
